---------------------------- MODULE Spec2Model ----------------------------
(***************************************************************************)
(* A model of the Animorphic Ensemble Optimizer of neorl/hybrid/aeo.py:     *)
(* the Population wrapper (evolute, strength, export, receive), the helper  *)
(* functions it uses (wtd_remove, raj_logfact, eval_algo_popnumber, ...)    *)
(* and the cycle loop of AEO.evolute.                                       *)
(*                                                                          *)
(* Floating point numbers are modelled by exact rationals [num, den];       *)
(* den = 0 stands for NaN.  The random draws of numpy (choice, binomial,    *)
(* multinomial) and of random.shuffle are nondeterministic choices over     *)
(* the outcomes that have non-zero probability; the exceptions they raise   *)
(* on invalid arguments are modelled as the run ending in pc = "raised".    *)
(***************************************************************************)
EXTENDS Integers, Sequences, FiniteSets, TLC

(***************************************************************************)
(* Bounds of the model.                                                     *)
(***************************************************************************)
\* number of initial individuals len(x0), the member capacity of the log
MaxMembers == 3
\* member fitness values returned by a strategy are drawn from 0..MaxFit
MaxFit == 1
\* Ncyc, the number of cycles asked of AEO.evolute, is drawn from 1..MaxNcyc
MaxNcyc == 2
\* number of operations applied to the single population of PopSpec
MaxOps == 4

\* np.nan as stored in member_fitnesses by Population.receive
NaN == -1

\* threshold of eval_algo_popnumber for WOA, GWO, PSO, HHO and DE
MinRunnable == 5

\* kf = None, the default of AEO.__init__
KfNone == -1

(***************************************************************************)
(* Sequence helpers.                                                        *)
(***************************************************************************)
Range(s) == {s[k] : k \in DOMAIN s}

RECURSIVE SumSeq(_)
SumSeq(s) == IF s = <<>> THEN 0 ELSE Head(s) + SumSeq(Tail(s))

RECURSIVE SetToSortedSeq(_)
\* the elements of a finite set of integers in ascending order
SetToSortedSeq(S) ==
    IF S = {} THEN <<>>
    ELSE LET m == CHOOSE x \in S : \A y \in S : x <= y
         IN  <<m>> \o SetToSortedSeq(S \ {m})

Reverse(s) == [k \in 1..Len(s) |-> s[Len(s) + 1 - k]]

\* s without the positions in the set idx (list.pop of each index, highest first)
RemoveAt(s, idx) ==
    LET keep == SetToSortedSeq((1..Len(s)) \ idx)
    IN  [k \in 1..Len(keep) |-> s[keep[k]]]

\* the elements at the positions idx, highest position first, as
\* [lst.pop(i) for i in reversed(sorted(indxs))] returns them
PoppedAt(s, idx) ==
    LET pos == Reverse(SetToSortedSeq(idx))
    IN  [k \in 1..Len(pos) |-> s[pos[k]]]

\* all orderings of the elements of a sequence of distinct items (random.shuffle)
Perms(s) ==
    {t \in [1..Len(s) -> Range(s)] : \A a, b \in 1..Len(s) : a # b => t[a] # t[b]}

(***************************************************************************)
(* Rational arithmetic: the model of Python and numpy float arithmetic.     *)
(***************************************************************************)
RECURSIVE GCD(_, _)
GCD(a, b) == IF b = 0 THEN a ELSE GCD(b, a % b)

Abs(x) == IF x < 0 THEN -x ELSE x

\* the rational n/d in lowest terms with a positive denominator (d # 0)
Rat(n, d) ==
    LET g == GCD(Abs(n), Abs(d))
        s == IF d < 0 THEN -1 ELSE 1
    IN  [num |-> s * (n \div g), den |-> s * (d \div g)]

RInt(n) == [num |-> n, den |-> 1]
RZero == RInt(0)
ROne == RInt(1)
RHalf == [num |-> 1, den |-> 2]
\* a float NaN (numpy's result of 0/0)
RNaN == [num |-> 0, den |-> 0]
\* a Python complex number (a negative float raised to a fractional power)
RComplex == [num |-> 0, den |-> -1]

IsNaN(x) == x.den = 0
IsComplex(x) == x.den < 0
IsReal(x) == x.den > 0

LCM(a, b) == (a \div GCD(a, b)) * b

RAdd(x, y) ==
    LET l == LCM(x.den, y.den)
    IN  Rat(x.num * (l \div x.den) + y.num * (l \div y.den), l)
RNeg(x) == [num |-> -x.num, den |-> x.den]
RSub(x, y) == RAdd(x, RNeg(y))
\* products are cancelled crosswise first, to keep the integers small
RMul(x, y) ==
    LET g1 == GCD(Abs(x.num), y.den)
        g2 == GCD(Abs(y.num), x.den)
    IN  Rat((x.num \div g1) * (y.num \div g2), (x.den \div g2) * (y.den \div g1))
\* x / y for y # 0
RDiv(x, y) == RMul(x, Rat(y.den, y.num))
RLt(x, y) == x.num * y.den < y.num * x.den
RLe(x, y) == x.num * y.den <= y.num * x.den

RECURSIVE RSum(_)
RSum(s) == IF s = <<>> THEN RZero ELSE RAdd(Head(s), RSum(Tail(s)))

RECURSIVE IntPow(_, _)
IntPow(b, e) == IF e = 0 THEN 1 ELSE b * IntPow(b, e - 1)

\* the m-th root of the positive rational y, exact when it is a multiple of
\* 1/100 and rounded down to one otherwise (floats round too)
RRoot(y, m) ==
    LET top == 100 * (1 + (y.num \div y.den))
        r == CHOOSE k \in 0..top :
                 /\ IntPow(k, m) * y.den <= IntPow(100, m) * y.num
                 /\ IntPow(k + 1, m) * y.den > IntPow(100, m) * y.num
    IN  Rat(r, 100)

\* Python's x ** a for floats x and a >= 0:  x ** 0 is 1 (also 0 ** 0), a
\* negative x with a fractional exponent gives a complex number
PyPow(x, a) ==
    IF a.num = 0 THEN ROne
    ELSE IF x.num = 0 THEN RZero
    ELSE IF a.den = 1 THEN Rat(IntPow(x.num, a.num), IntPow(x.den, a.num))
    ELSE IF x.num < 0 THEN RComplex
    ELSE RRoot(Rat(IntPow(x.num, a.num), IntPow(x.den, a.num)), a.den)


(***************************************************************************)
(* sorted() of Python on a short list: count_run followed by a binary       *)
(* insertion sort (listobject.c), on keys that are tuples <<fitness, x>>    *)
(* or lone fitnesses <<fitness>>.  Comparisons with np.nan are false, and   *)
(* a tuple comparison skips leading elements that are the same object.      *)
(***************************************************************************)
\* key a < key b, as Python compares floats and tuples
KeyLt(a, b) ==
    IF a[1] # b[1] THEN a[1] # NaN /\ b[1] # NaN /\ a[1] < b[1]
    ELSE IF Len(a) = 1 THEN FALSE
    ELSE a[2] < b[2]

RECURSIVE RunLen(_, _, _, _)
\* count_run: the length of the run of L (positions into keys) that starts at
\* L[1], given that L[1..k] is known to belong to it
RunLen(keys, L, k, descending) ==
    IF k = Len(L) THEN k
    ELSE IF KeyLt(keys[L[k + 1]], keys[L[k]]) = descending
         THEN RunLen(keys, L, k + 1, descending)
         ELSE k

RECURSIVE BinPos(_, _, _, _, _)
\* binarysort's search: the number of elements of the sorted prefix that stay
\* in front of the pivot
BinPos(keys, L, pivot, l, r) ==
    IF l >= r THEN l
    ELSE LET p == l + ((r - l) \div 2)
         IN  IF KeyLt(keys[pivot], keys[L[p + 1]])
             THEN BinPos(keys, L, pivot, l, p)
             ELSE BinPos(keys, L, pivot, p + 1, r)

RECURSIVE BinarySort(_, _, _)
\* binarysort: L[1..start-1] is sorted, insert L[start], L[start+1], ...
BinarySort(keys, L, start) ==
    IF start > Len(L) THEN L
    ELSE LET pos == BinPos(keys, L, L[start], 0, start - 1)
             M == SubSeq(L, 1, pos) \o <<L[start]>> \o SubSeq(L, pos + 1, start - 1)
                      \o SubSeq(L, start + 1, Len(L))
         IN  BinarySort(keys, M, start + 1)

\* list.sort on the positions L of keys
ListSort(keys, L) ==
    IF Len(L) < 2 THEN L
    ELSE LET descending == KeyLt(keys[L[2]], keys[L[1]])
             run == RunLen(keys, L, 2, descending)
             M == IF descending
                  THEN Reverse(SubSeq(L, 1, run)) \o SubSeq(L, run + 1, Len(L))
                  ELSE L
         IN  BinarySort(keys, M, run + 1)

\* sorted(keys, reverse = rev) as the sequence of positions of keys in their
\* new order; a reverse sort reverses the list, sorts it and reverses it again
PySorted(keys, rev) ==
    LET L == [k \in 1..Len(keys) |-> k]
    IN  IF rev THEN Reverse(ListSort(keys, Reverse(L))) ELSE ListSort(keys, L)

(***************************************************************************)
(* The weights of Population.export.  np.log and np.exp are tabulated on    *)
(* the arguments the model reaches, in units of 1/10000 and 1/100.          *)
(***************************************************************************)
\* np.log(x) in units of 1/10000
LnE4(x) ==
    CASE x = 1 -> 0        [] x = 2 -> 6931     [] x = 3 -> 10986
      [] x = 4 -> 13863    [] x = 5 -> 16094    [] x = 6 -> 17918
      [] x = 7 -> 19459    [] x = 8 -> 20794    [] x = 13 -> 25649
      [] x = 82 -> 44067   [] x = 255 -> 55413  [] x = 580 -> 63630
      [] x = 1105 -> 70076 [] x = 1878 -> 75380 [] x = 2947 -> 79885
      [] x = 4360 -> 83802

\* np.exp(k) in units of 1/100
ExpE2(k) ==
    CASE k = 0 -> 100      [] k = 1 -> 272      [] k = 2 -> 739
      [] k = 3 -> 2009     [] k = 4 -> 5460     [] k = 5 -> 14841
      [] k = 6 -> 40343    [] k = 7 -> 109663   [] k = 8 -> 298096

\* Ramanujan's approximation of log(n!); n = 0 gives 0 * log(0) = nan
raj_logfact(n) ==
    IF n = 0 THEN RNaN
    ELSE LET f1 == n * LnE4(n)
             f2 == -n * 10000
             f3 == LnE4(n * (1 + 4 * n * (1 + 2 * n))) \div 6
             f4 == 5724
         IN  Rat(f1 + f2 + f3 + f4, 10000)

\* numpy's array / scalar: a zero divisor gives nan (or inf, which ends as a
\* nan in wtd_remove's renormalisation) with a warning, not an exception
NpDiv(x, y) == IF IsNaN(y) \/ IsNaN(x) \/ y.num = 0 THEN RNaN ELSE RDiv(x, y)

\* wts = (np.log(seq)+kf)/(self.n*kf + raj_logfact(self.n))
LogWts(len, n, kf) ==
    LET den == IF n = 0 THEN RNaN ELSE RAdd(RInt(n * kf), raj_logfact(n))
    IN  [r \in 1..len |-> NpDiv(Rat(LnE4(r) + kf * 10000, 10000), den)]

\* wts = (seq-1+kf)/(self.n*(kf-.5)+.5*self.n**2)
LinWts(len, n, kf) ==
    LET den == Rat(2 * n * kf - n + n * n, 2)
    IN  [r \in 1..len |-> NpDiv(RInt(r - 1 + kf), den)]

\* wts = (np.exp(seq-1) - 1 + kf)/((kf-1)*self.n+(1-np.exp(self.n))/(1-np.exp(1)))
ExpWts(len, n, kf) ==
    LET den == RAdd(RInt((kf - 1) * n), RDiv(Rat(100 - ExpE2(n), 100), Rat(100 - ExpE2(1), 100)))
    IN  [r \in 1..len |-> NpDiv(Rat(ExpE2(r - 1) - 100 + kf * 100, 100), den)]

RankWts(wt, len, n, kf) ==
    CASE wt = "log" -> LogWts(len, n, kf)
      [] wt = "lin" -> LinWts(len, n, kf)
      [] wt = "exp" -> ExpWts(len, n, kf)

(***************************************************************************)
(* wtd_remove and numpy's random.choice(range(n), size, p, replace=False).  *)
(***************************************************************************)
RECURSIVE NpSum(_)
\* sum(wts): a nan among the summands makes the sum nan
NpSum(s) ==
    IF s = <<>> THEN RZero
    ELSE LET rest == NpSum(Tail(s))
         IN  IF IsNaN(Head(s)) \/ IsNaN(rest) THEN RNaN ELSE RAdd(Head(s), rest)

\* wts_checked = [a/wts_sum for a in wts]
WtsChecked(wts) ==
    LET wts_sum == NpSum(wts)
    IN  [k \in 1..Len(wts) |-> NpDiv(wts[k], wts_sum)]

\* the ValueError cases of numpy's choice without replacement
ChoiceRaises(len, size, p) ==
    \/ len = 0 /\ size # 0
    \/ \E k \in 1..Len(p) : IsNaN(p[k])
    \/ \E k \in 1..Len(p) : p[k].num < 0
    \/ NpSum(p) # ROne
    \/ size > len
    \/ Cardinality({k \in 1..Len(p) : p[k].num > 0}) < size

\* the index sets choice can return: size distinct indices of non-zero weight
ChoiceOutcomes(len, size, p) ==
    {S \in SUBSET {k \in 1..Len(p) : p[k].num > 0} : Cardinality(S) = size}

\* default weights that leave the first of several elements out of the draw
UniWtsSkipFirst(len) ==
    [k \in 1..len |-> IF len = 1 THEN ROne ELSE IF k = 1 THEN RZero ELSE Rat(1, len - 1)]

\* wts of wtd_remove when none are passed: [1/len(lst) for i in range(len(lst))]
UniWts(len) == [k \in 1..len |-> Rat(1, len)]

\* wtd_remove(lst, ei, wts): whether it raises, and otherwise the index sets it
\* may draw; the caller pops them from lst
wtd_remove_raises(lst, ei, wts) == ChoiceRaises(Len(lst), ei, WtsChecked(wts))

wtd_remove_draws(lst, ei, wts) == ChoiceOutcomes(Len(lst), ei, WtsChecked(wts))

(***************************************************************************)
(* Strategy objects: [algo, mu, size], size being the attribute that holds  *)
(* the population size (npop, lambda_, nwhales, ...).                       *)
(***************************************************************************)
\* a test that lets every strategy run on one member or more
eval_algo_popnumber_any(obj, nmembers) == nmembers >= 1

\* eval_algo_popnumber: MFO falls through both branches and returns None
eval_algo_popnumber(obj, nmembers) ==
    IF obj.algo \in {"WOA", "GWO", "PSO", "HHO", "DE"} THEN nmembers >= MinRunnable
    ELSE IF obj.algo = "ES" THEN nmembers >= obj.mu
    ELSE FALSE

\* get_algo_ngtonevals: generations i and individuals a to fitness evaluations
get_algo_ngtonevals(algo, i, a) ==
    CASE algo \in {"WOA", "GWO"} -> a * i
      [] algo = "PSO" -> (i + 1) * a
      [] algo = "DE" -> 2 * i * a
      [] algo = "ES" -> (i + 1) * a
      [] algo = "HHO" -> 2 * i * a

\* get_algo_nmembers
get_algo_nmembers(obj) == obj.size

\* a clone that keeps the size the object was made with
clone_same_size(obj, nmembers) == obj

\* clone_algo_obj: the attribute dictionary of obj with the size replaced
clone_algo_obj(obj, nmembers) == [obj EXCEPT !.size = nmembers]

\* DEmod.__init__: assert npop > 3
StrategyInitRaises(obj) == obj.algo = "DE" /\ ~(obj.size > 3)

\* DEmod.evolute: assert len(x0) == self.npop
StrategyEvoluteRaises(obj, x0) == obj.algo = "DE" /\ Len(x0) # obj.size

(***************************************************************************)
(* class Population.  A population is the record                            *)
(*   [strategy, shared, algo, members, member_fitnesses, has_mf, n, mode,   *)
(*    fitlog,                                                               *)
(*    last_ngen]                                                            *)
(* where has_mf tells whether the attribute member_fitnesses exists yet (it *)
(* is first assigned by evolute) and last_ngen = 0 that last_ngen does not. *)
(* An individual is an integer that stands for its vector.  The slice of    *)
(* the log a method writes to is the record LogSlice; every method is an    *)
(* operator from the state before the call to [pop, log, ret, raised].      *)
(***************************************************************************)
\* an assignment of the object itself: the holder shares it with the caller
same_object(obj) == [obj |-> obj, shared |-> TRUE]

\* copy.deepcopy(obj): an equal object that nobody else holds
deepcopy(obj) == [obj |-> obj, shared |-> FALSE]

\* Population.__init__; shared tells whether self.strategy is the very object
\* the caller passed
NewPopulation(strategy, algo, init_pop, mode) ==
    [strategy |-> deepcopy(strategy).obj, shared |-> deepcopy(strategy).shared,
     algo |-> algo, members |-> init_pop,
     member_fitnesses |-> <<>>, has_mf |-> FALSE, n |-> Len(init_pop),
     mode |-> mode, fitlog |-> <<>>, last_ngen |-> 0]

\* the entries of log.loc[{'pop' : p.popname, 'cycle' : i}] the model keeps,
\* as xr.Dataset creates them (np.zeros)
LogSlice ==
    [evolute |-> FALSE, member_x |-> <<>>, nmembers |-> 0, f |-> 0,
     unburdened_g |-> RZero, g |-> RZero, unburdened_b |-> RZero, b |-> RZero,
     exported |-> {}]

\* the least element where the greatest is asked for
LeastOf(s) == CHOOSE x \in Range(s) : \A y \in Range(s) : x <= y

MaxOf(s) == CHOOSE x \in Range(s) : \A y \in Range(s) : y <= x
MinOf(s) == CHOOSE x \in Range(s) : \A y \in Range(s) : x <= y

\* the property Population.fitness, for a non-empty fitlog
PopFitness(p) == p.fitlog[Len(p.fitlog)]

\* Population.evolute(ngen, fit, bounds, log); out = [members, fitnesses] is
\* what self.strategy.evolute(ngen, x0 = self.members) returns as last_pop
PopEvolute(p, ngen, out, log) ==
    IF ~eval_algo_popnumber(p.strategy, Len(p.members))
    THEN IF Len(p.fitlog) = 0
         THEN [pop |-> p, log |-> log, ret |-> 0, raised |-> "Exception"]
         ELSE [pop |-> p,
               log |-> IF p.n # 0
                       THEN [log EXCEPT !.member_x = p.members, !.nmembers = p.n,
                                        !.f = PopFitness(p)]
                       ELSE log,
               ret |-> PopFitness(p), raised |-> "none"]
    ELSE LET best == IF p.mode = "max" THEN MaxOf(out.fitnesses) ELSE MinOf(out.fitnesses)
             clone == clone_algo_obj(p.strategy, Len(p.members))
             q == [p EXCEPT !.strategy = clone,
                            !.shared = FALSE,
                            !.last_ngen = ngen,
                            !.members = out.members,
                            !.member_fitnesses = out.fitnesses,
                            !.has_mf = TRUE,
                            !.fitlog = Append(p.fitlog, best)]
             l1 == [log EXCEPT !.evolute = TRUE]
         IN  IF StrategyInitRaises(clone)
             THEN [pop |-> p, log |-> l1, ret |-> 0, raised |-> "AssertionError"]
             ELSE IF StrategyEvoluteRaises(clone, p.members)
             THEN [pop |-> [p EXCEPT !.strategy = clone, !.shared = FALSE, !.last_ngen = ngen],
                   log |-> l1, ret |-> 0, raised |-> "AssertionError"]
             ELSE [pop |-> q,
                   log |-> IF q.n # 0
                           THEN [l1 EXCEPT !.member_x = q.members, !.nmembers = q.n,
                                           !.f = PopFitness(q)]
                           ELSE l1,
                   ret |-> PopFitness(q), raised |-> "none"]

\* a raw 'improve' signal without the clamp at 0
UnormUnclamped(p, g) ==
    IF g = "improve" /\ Len(p.fitlog) > 1
    THEN p.fitlog[Len(p.fitlog)] - p.fitlog[Len(p.fitlog) - 1]
    ELSE p.fitlog[Len(p.fitlog)]

\* the strength before normalisation: the last fitness gain for 'improve'
\* from the second evolution on, the current fitness otherwise
Unorm(p, g) ==
    IF g = "improve" /\ Len(p.fitlog) > 1
    THEN LET d == p.fitlog[Len(p.fitlog)] - p.fitlog[Len(p.fitlog) - 1]
         IN  IF d > 0 THEN d ELSE 0
    ELSE PopFitness(p)

\* a normalisation that takes fmax for the best in either mode
NormedMaxOnly(p, g, fmax, fmin) == Rat(Unorm(p, g) - fmin, fmax - fmin)

\* normed = (unorm - fworst)/(fbest - fworst), for fmax # fmin
Normed(p, g, fmax, fmin) ==
    LET fbest == IF p.mode = "max" THEN fmax ELSE fmin
        fworst == IF p.mode = "max" THEN fmin ELSE fmax
    IN  Rat(Unorm(p, g) - fworst, fbest - fworst)

\* Population.strength(g, g_burden, fmax, fmin, log, g_or_b)
strength(p, g, g_burden, fmax, fmin, log, g_or_b) ==
    LET normed == Normed(p, g, fmax, fmin)
        Nc == get_algo_ngtonevals(p.algo, p.last_ngen, p.n)
        ret == IF g_burden THEN RDiv(normed, RInt(1 + Nc)) ELSE normed
    IN  [ret |-> ret,
         log |-> IF g_or_b = "g"
                 THEN [log EXCEPT !.unburdened_g = normed, !.g = ret]
                 ELSE [log EXCEPT !.unburdened_b = normed, !.b = ret]]

\* an order whose annealed variants keep the stated direction in every cycle
ExportOrderStated(order, gfrac) ==
    IF order \in {"awb", "abw"}
    THEN (IF order = "awb" THEN "wb" ELSE "bw")
    ELSE order

\* the direction export orders the members in: an annealed order is the
\* stated one before half of the cycles and the reverse from then on
ExportOrder(order, gfrac) ==
    IF order \in {"awb", "abw"}
    THEN IF RLt(gfrac, RHalf)
         THEN (IF order = "awb" THEN "wb" ELSE "bw")
         ELSE (IF order = "awb" THEN "bw" ELSE "wb")
    ELSE order

\* whether export sorts with reverse = True
SortsReversed(o, mode) == (o = "bw" /\ mode = "max") \/ (o = "wb" /\ mode = "min")

\* an ordering that sorts the members and leaves the fitnesses where they are
SortedMembersOnly(p, rev) ==
    LET len == Len(p.members)
        km == [k \in 1..len |-> <<p.member_fitnesses[k], p.members[k]>>]
        ks == [k \in 1..len |-> <<p.member_fitnesses[k], k>>]
        pm == PySorted(km, rev)
    IN  [members |-> [k \in 1..len |-> p.members[pm[k]]],
         shuffled |-> PySorted(ks, rev),
         member_fitnesses |-> p.member_fitnesses]

\* the members, their former positions and the fitnesses as export's three
\* sorted() calls leave them
SortedForExport(p, rev) ==
    LET len == Len(p.members)
        km == [k \in 1..len |-> <<p.member_fitnesses[k], p.members[k]>>]
        ks == [k \in 1..len |-> <<p.member_fitnesses[k], k>>]
        kf == [k \in 1..len |-> <<p.member_fitnesses[k]>>]
        pm == PySorted(km, rev)
        pf == PySorted(kf, rev)
    IN  [members |-> [k \in 1..len |-> p.members[pm[k]]],
         shuffled |-> PySorted(ks, rev),
         member_fitnesses |-> [k \in 1..len |-> p.member_fitnesses[pf[k]]]]

\* the end of export once the indices idx were drawn from population q:
\* flag the slots, pop the fitnesses, update n
ExportRemove(q, shuffled, idx, log) ==
    LET popped == [q EXCEPT !.members = RemoveAt(q.members, idx)]
        l1 == [log EXCEPT !.exported = @ \cup {shuffled[j] : j \in idx}]
    IN  IF idx # {} /\ ~q.has_mf
        THEN [pop |-> popped, log |-> l1, ret |-> <<>>, raised |-> "AttributeError"]
        ELSE [pop |-> [popped EXCEPT !.member_fitnesses = RemoveAt(q.member_fitnesses, idx),
                                     !.n = Len(popped.members)],
              log |-> l1, ret |-> PoppedAt(q.members, idx), raised |-> "none"]

\* the draw of export from population q (ordered already) with weights wts
ExportDraw(q, shuffled, ei, wts, log) ==
    IF q.n > 0
    THEN IF wtd_remove_raises(q.members, ei, wts)
         THEN {[pop |-> q, log |-> log, ret |-> <<>>, raised |-> "ValueError"]}
         ELSE {ExportRemove(q, shuffled, idx, log) : idx \in wtd_remove_draws(q.members, ei, wts)}
    ELSE {ExportRemove(q, shuffled, {}, log)}

\* Population.export(ei, wt, order, kf, gfrac, log): the set of its outcomes
export(p, ei, wt, order, kf, gfrac, log) ==
    LET ident == [k \in 1..Len(p.members) |-> k]
    IN  IF wt = "uni"
        THEN ExportDraw(p, ident, ei, UniWts(Len(p.members)), log)
        ELSE IF order = "None"
        THEN {[pop |-> p, log |-> log, ret |-> <<>>, raised |-> "TypeError"]}
        ELSE IF ~p.has_mf
        THEN {[pop |-> p, log |-> log, ret |-> <<>>, raised |-> "AttributeError"]}
        ELSE LET o == ExportOrder(order, gfrac)
                 srt == SortedForExport(p, SortsReversed(o, p.mode))
                 q == [p EXCEPT !.members = srt.members,
                                !.member_fitnesses = srt.member_fitnesses]
             IN  IF kf = KfNone
                 THEN {[pop |-> q, log |-> log, ret |-> <<>>, raised |-> "TypeError"]}
                 ELSE ExportDraw(q, srt.shuffled, ei,
                                 RankWts(wt, Len(q.members), q.n, kf), log)

\* a receive that puts the individuals in front of the members
receive_front(p, individuals) ==
    LET q == [p EXCEPT !.members = individuals \o @]
    IN  IF individuals # <<>> /\ ~p.has_mf
        THEN [pop |-> q, raised |-> "AttributeError"]
        ELSE [pop |-> [q EXCEPT !.member_fitnesses = @ \o [k \in 1..Len(individuals) |-> NaN],
                                !.n = Len(q.members)],
              raised |-> "none"]

\* Population.receive(individuals)
receive(p, individuals) ==
    LET q == [p EXCEPT !.members = @ \o individuals]
    IN  IF individuals # <<>> /\ ~p.has_mf
        THEN [pop |-> q, raised |-> "AttributeError"]
        ELSE [pop |-> [q EXCEPT !.member_fitnesses = @ \o [k \in 1..Len(individuals) |-> NaN],
                                !.n = Len(q.members)],
              raised |-> "none"]

(***************************************************************************)
(* numpy's binomial and multinomial draws.                                  *)
(***************************************************************************)
\* np.random.binomial(n, p) raises a ValueError for p outside [0, 1]
BinomialRaises(p) == ~IsReal(p) \/ p.num < 0 \/ RLt(ROne, p)

\* a draw that may exceed the number of trials
BinomialOver(n, p) == 0..(n + 1)

\* the counts np.random.binomial(n, p) can return
Binomial(n, p) ==
    IF p.num = 0 THEN {0} ELSE IF p = ROne THEN {n} ELSE 0..n

\* np.random.multinomial(n, pvals) raises a ValueError for such pvals
MultinomialRaises(pvals) ==
    \/ \E k \in 1..Len(pvals) : BinomialRaises(pvals[k])
    \/ Len(pvals) > 0 /\ RLt(ROne, RSum(SubSeq(pvals, 1, Len(pvals) - 1)))

RECURSIVE Allotments(_, _)
\* the allotments np.random.multinomial(n, pvals) can return: they sum to n
\* and give nothing to a population of probability 0
Allotments(n, pvals) ==
    IF Len(pvals) = 0 THEN {<<>>}
    ELSE IF Len(pvals) = 1 THEN {<<n>>}
    ELSE LET first == IF pvals[1].num = 0 THEN {0}
                      ELSE IF \A k \in 2..Len(pvals) : pvals[k].num = 0 THEN {n}
                      ELSE 0..n
         IN  UNION {{<<a>> \o rest : rest \in Allotments(n - a, Tail(pvals))} : a \in first}

RECURSIVE SeqProduct(_)
\* the sequences that take their k-th element from the k-th set
SeqProduct(sets) ==
    IF sets = <<>> THEN {<<>>}
    ELSE {<<x>> \o rest : x \in Head(sets), rest \in SeqProduct(Tail(sets))}

RECURSIVE Flatten(_)
\* list(itertools.chain.from_iterable(lists))
Flatten(lists) == IF lists = <<>> THEN <<>> ELSE Head(lists) \o Flatten(Tail(lists))

(***************************************************************************)
(* class AEO.  The options of AEO.__init__ are the record cfg; alpha, beta  *)
(* and q are [kind |-> "float", val |-> a rational] or [kind |-> "up" or    *)
(* "down", val |-> 0].                                                      *)
(***************************************************************************)
Float(n, d) == [kind |-> "float", val |-> Rat(n, d)]
Annealed(dir) == [kind |-> dir, val |-> RZero]

\* get_alphabeta and get_q divide by Ncyc - 1 for 'up' and 'down'
AnnealRaises(a, N) == a.kind # "float" /\ N = 1

\* an annealing that counts the cycles from 0 to Ncyc
get_alphabeta_from0(aorb, ncyc, N) ==
    CASE aorb.kind = "float" -> aorb.val
      [] aorb.kind = "up" -> Rat(ncyc, N)
      [] aorb.kind = "down" -> RSub(ROne, Rat(ncyc, N))

\* AEO.get_alphabeta(aorb, ncyc, Ncyc), for not AnnealRaises
get_alphabeta(aorb, ncyc, N) ==
    CASE aorb.kind = "float" -> aorb.val
      [] aorb.kind = "up" -> Rat(ncyc - 1, N - 1)
      [] aorb.kind = "down" -> RSub(ROne, Rat(ncyc - 1, N - 1))

\* AEO.get_q(ncyc, Ncyc), for not AnnealRaises
get_q(q, ncyc, N) ==
    CASE q.kind = "float" -> q.val
      [] q.kind = "up" -> RSub(RMul(Rat(2, 1 - N), RInt(1 - ncyc)), ROne)
      [] q.kind = "down" -> RAdd(RMul(Rat(2, 1 - N), RInt(ncyc - 1)), ROne)

(***************************************************************************)
(* The state.  cfg, optimizers and Ncyc are the arguments of AEO.__init__   *)
(* and AEO.evolute; pops is self.pops; i, pop_fits, eis, exported, alpha    *)
(* and allot are the local variables of AEO.evolute (alpha is unbound until *)
(* a cycle with migration assigns it, allot stands for allotments and       *)
(* allotment_holder); log holds the cycle i of the xr.Dataset and its       *)
(* attribute Ncycles; pc is the place in the cycle and err the exception    *)
(* that ended the run.  call and nops belong to PopSpec, which applies the  *)
(* methods of one Population in any order: call is the last call made and  *)
(* own[x] the fitness the strategy last gave individual x (NaN before that  *)
(* and once x was received from elsewhere).                                 *)
(***************************************************************************)
VARIABLES cfg, optimizers, Ncyc, pops, pc, i, pop_fits, eis, exported, alpha,
          allot, log, err, stopped, call, nops, own

vars == <<cfg, optimizers, Ncyc, pops, pc, i, pop_fits, eis, exported, alpha,
          allot, log, err, stopped, call, nops, own>>

args == <<cfg, optimizers, Ncyc>>

NPops == Len(pops)

Unbound == [bound |-> FALSE, val |-> RZero]

\* err: the exception that ended the run and the phase or call that raised it
NoError == [exc |-> "none", at |-> "none"]
Raised(at, exc) == [exc |-> exc, at |-> at]

Individuals == 1..MaxMembers

NoCall == [op |-> "none", n |-> 0, ei |-> 0, wt |-> "uni", order |-> "None", kf |-> KfNone,
           gfrac |-> RZero, individuals |-> <<>>, ret |-> <<>>, raised |-> "none"]

NoFitness == [x \in Individuals |-> NaN]

\* the log of a cycle as xr.Dataset creates it
NewLog(n, Ncycles) ==
    [slices |-> [j \in 1..n |-> LogSlice], migration |-> FALSE,
     nexport |-> [j \in 1..n |-> 0], A |-> [j \in 1..n |-> 0], Ncycles |-> Ncycles]

(***************************************************************************)
(* The strategies.  Their evolute is not part of the ensemble: it returns a *)
(* final population as large as x0, here the individuals of x0 in one of    *)
(* the given orders with any fitnesses of 0..MaxFit.                        *)
(***************************************************************************)
StrategyEvolute(x0, orders) ==
    {[members |-> m, fitnesses |-> f] : m \in orders, f \in [1..Len(x0) -> 0..MaxFit]}

NoOutcome == [members |-> <<>>, fitnesses |-> <<>>]

\* what the strategy of population p may return in the evolution phase of AEO
EvoluteOutcomes(p) ==
    IF eval_algo_popnumber(p.strategy, Len(p.members))
    THEN StrategyEvolute(p.members, {SetToSortedSeq(Range(p.members))})
    ELSE {NoOutcome}

\* the optimizers passed to AEO: two populations under every configuration,
\* three under those with uniform export and a constant alpha
OptimizerLists(c) ==
    {<<[algo |-> "ES", mu |-> 1, size |-> 2], [algo |-> "ES", mu |-> 2, size |-> 2]>>}
    \cup (IF c.wt = "uni" /\ c.alpha.kind = "float"
          THEN {<<[algo |-> "ES", mu |-> 1, size |-> 1], [algo |-> "ES", mu |-> 1, size |-> 1],
                  [algo |-> "ES", mu |-> 1, size |-> 1]>>}
          ELSE {})

\* the options of AEO.__init__ the model runs
ExportOpts ==
    {[wt |-> "uni", order |-> "None", kf |-> KfNone],
     [wt |-> "lin", order |-> "wb", kf |-> 1],
     [wt |-> "log", order |-> "abw", kf |-> 0],
     [wt |-> "exp", order |-> "bw", kf |-> 0]}

CountOpts ==
    {[alpha |-> Float(1, 1), g |-> "fitness", g_burden |-> FALSE, q |-> Float(1, 1)],
     [alpha |-> Annealed("up"), g |-> "improve", g_burden |-> TRUE, q |-> Annealed("down")]}

DestOpts ==
    {[beta |-> Float(1, 1), b |-> "fitness", b_burden |-> FALSE, ret |-> TRUE],
     [beta |-> Float(1, 1), b |-> "fitness", b_burden |-> FALSE, ret |-> FALSE],
     [beta |-> Float(0, 1), b |-> "fitness", b_burden |-> TRUE, ret |-> FALSE],
     [beta |-> Annealed("down"), b |-> "improve", b_burden |-> FALSE, ret |-> TRUE]}

Configs ==
    {[mode |-> m, gpc |-> 1,
      alpha |-> c.alpha, g |-> c.g, g_burden |-> c.g_burden, q |-> c.q,
      wt |-> e.wt, order |-> e.order, kf |-> e.kf,
      beta |-> d.beta, b |-> d.b, b_burden |-> d.b_burden, ret |-> d.ret] :
        m \in {"max", "min"}, c \in CountOpts, e \in ExportOpts, d \in DestOpts}

(***************************************************************************)
(* AEO.evolute up to the first cycle.                                       *)
(***************************************************************************)
RECURSIVE Dup(_, _)
\* pop0 = list(itertools.chain.from_iterable([[i]*npop0[i] for i ...]))
Dup(npop0, j) ==
    IF j > Len(npop0) THEN <<>>
    ELSE [k \in 1..npop0[j] |-> j] \o Dup(npop0, j + 1)

\* xpop: the individuals of x0 assigned to population j, in the order of x0
XPop(x0, pop0, j) ==
    LET at == SetToSortedSeq({k \in 1..Len(x0) : k <= Len(pop0) /\ pop0[k] = j})
    IN  [k \in 1..Len(at) |-> x0[at[k]]]

\* self.pops as AEO.evolute builds it from x0 and pop0
BuildPops(opts, mode, x0, pop0) ==
    [j \in 1..Len(opts) |-> NewPopulation(opts[j], opts[j].algo, XPop(x0, pop0, j), mode)]

\* the initial sizes npop0 the model starts from
Splits(n) == {s \in [1..n -> 0..MaxMembers] : SumSeq(s) = MaxMembers}

Init ==
    /\ cfg \in Configs
    /\ optimizers \in OptimizerLists(cfg)
    /\ Ncyc \in 1..MaxNcyc
    /\ \E npop0 \in Splits(Len(optimizers)) :
           pops = BuildPops(optimizers, cfg.mode, [k \in 1..SumSeq(npop0) |-> k],
                            Dup(npop0, 1))
    /\ pc = "evolve"
    /\ i = 1
    /\ pop_fits = <<>>
    /\ eis = <<>>
    /\ exported = <<>>
    /\ alpha = Unbound
    /\ allot = <<>>
    /\ log = NewLog(Len(optimizers), 0)
    /\ err = NoError
    /\ stopped = FALSE
    /\ call = NoCall
    /\ nops = 0
    /\ own = NoFitness

(***************************************************************************)
(* The evolution phase:                                                     *)
(*   pop_fits = [p.evolute(self.gpc, ...) for p in self.pops]               *)
(***************************************************************************)
\* the first index of a sequence of results at which a call raised, or 0
FirstRaised(r) ==
    IF \E j \in 1..Len(r) : r[j].raised # "none"
    THEN CHOOSE j \in 1..Len(r) :
             /\ r[j].raised # "none"
             /\ \A k \in 1..(j - 1) : r[k].raised = "none"
    ELSE 0

\* the populations after a list comprehension of calls with results r: the
\* calls behind one that raised were never made
PopsAfter(r) ==
    LET f == FirstRaised(r)
    IN  [j \in 1..Len(r) |-> IF f = 0 \/ j <= f THEN r[j].pop ELSE pops[j]]

SlicesAfter(r) ==
    LET f == FirstRaised(r)
    IN  [j \in 1..Len(r) |-> IF f = 0 \/ j <= f THEN r[j].log ELSE log.slices[j]]

\* the object obj the user passed for population p once p.evolute returned:
\* clone_algo_obj writes the size into the __dict__ of p.strategy before it
\* builds the new object, and that is obj if p shares its strategy
UserObjectAfter(p, obj) ==
    IF p.shared /\ eval_algo_popnumber(p.strategy, Len(p.members))
    THEN clone_algo_obj(obj, Len(p.members))
    ELSE obj

EvolutionPhase ==
    /\ pc = "evolve"
    /\ \E outs \in SeqProduct([j \in 1..NPops |-> EvoluteOutcomes(pops[j])]) :
         LET r == [j \in 1..NPops |-> PopEvolute(pops[j], cfg.gpc, outs[j], log.slices[j])]
             f == FirstRaised(r)
         IN  /\ pops' = PopsAfter(r)
             /\ log' = [log EXCEPT !.slices = SlicesAfter(r)]
             /\ pop_fits' = IF f = 0 THEN [j \in 1..NPops |-> r[j].ret] ELSE pop_fits
             /\ pc' = IF f = 0 THEN "count" ELSE "raised"
             /\ err' = IF f = 0 THEN err ELSE Raised("evolve", r[f].raised)
             /\ optimizers' = [j \in 1..NPops |->
                                 IF f = 0 \/ j <= f
                                 THEN UserObjectAfter(pops[j], optimizers[j])
                                 ELSE optimizers[j]]
    /\ UNCHANGED <<cfg, Ncyc, i, eis, exported, alpha, allot, stopped, call, nops, own>>

(***************************************************************************)
(* The exportation number:  maxf, minf, the export strengths and the draw   *)
(* of eis, then the log entries nexport, fmax, fmin and alpha.              *)
(***************************************************************************)
\* export counts of one member each
Ones(n) == [j \in 1..n |-> 1]

\* [0]*len(self.pops)
Zeros(n) == [j \in 1..n |-> 0]

\* strengths_exp = [p.strength(self.g, ...)**alpha for p in self.pops]
ExportStrengths(maxf, minf, a) ==
    [j \in 1..NPops |->
        PyPow(strength(pops[j], cfg.g, cfg.g_burden, maxf, minf, log.slices[j], "g").ret, a)]

\* binomial_wts = [(.5 - s)*qt + .5 for s in strengths_exp_scaled]
BinomialWts(strengths_exp, qt) ==
    LET total == RSum(strengths_exp)
    IN  [j \in 1..Len(strengths_exp) |->
            RAdd(RMul(RSub(RHalf, RDiv(strengths_exp[j], total)), qt), RHalf)]

\* the outcomes of the phase: [eis, alpha, slices, migration, raised]
ExportNumberOutcomes ==
    LET maxf == MaxOf(pop_fits)
        minf == MinOf(pop_fits)
        same == [eis |-> eis, alpha |-> alpha, slices |-> log.slices,
                 migration |-> log.migration, raised |-> "none"]
    IN  IF maxf = minf
        THEN {[same EXCEPT !.eis = Zeros(NPops), !.migration = FALSE,
                           !.raised = IF alpha.bound THEN "none" ELSE "UnboundLocalError"]}
        ELSE IF AnnealRaises(cfg.alpha, Ncyc)
        THEN {[same EXCEPT !.raised = "ZeroDivisionError"]}
        ELSE LET a == get_alphabeta(cfg.alpha, i, Ncyc)
                 sexp == ExportStrengths(maxf, minf, a)
                 got == [same EXCEPT
                            !.alpha = [bound |-> TRUE, val |-> a],
                            !.slices = [j \in 1..NPops |->
                                strength(pops[j], cfg.g, cfg.g_burden, maxf, minf,
                                         log.slices[j], "g").log]]
             IN  IF \E j \in 1..NPops : IsComplex(sexp[j])
                 THEN {[got EXCEPT !.raised = IF AnnealRaises(cfg.q, Ncyc)
                                               THEN "ZeroDivisionError" ELSE "TypeError"]}
                 ELSE IF RSum(sexp).num = 0 \/ AnnealRaises(cfg.q, Ncyc)
                 THEN {[got EXCEPT !.raised = "ZeroDivisionError"]}
                 ELSE LET w == BinomialWts(sexp, get_q(cfg.q, i, Ncyc))
                      IN  IF \E j \in 1..NPops : BinomialRaises(w[j])
                          THEN {[got EXCEPT !.raised = "ValueError"]}
                          ELSE {[got EXCEPT !.eis = e, !.migration = TRUE] :
                                  e \in SeqProduct([j \in 1..NPops |->
                                           Binomial(Len(pops[j].members), w[j])])}

ExportNumber ==
    /\ pc = "count"
    /\ \E r \in ExportNumberOutcomes :
         /\ eis' = r.eis
         /\ alpha' = r.alpha
         /\ log' = [log EXCEPT !.slices = r.slices, !.migration = r.migration,
                               !.nexport = IF r.raised \in {"none", "UnboundLocalError"}
                                           THEN r.eis ELSE @]
         /\ pc' = IF r.raised = "none" THEN "export" ELSE "raised"
         /\ err' = IF r.raised = "none" THEN err ELSE Raised("count", r.raised)
    /\ UNCHANGED <<args, pops, i, pop_fits, exported, allot, stopped, call, nops, own>>

(***************************************************************************)
(* Member selection:                                                        *)
(*   exported = [p.export(eis[j], self.wt, self.order, self.kf, i/Ncyc, ..) *)
(*               for j, p in enumerate(self.pops)]                          *)
(***************************************************************************)
MemberSelection ==
    /\ pc = "export"
    /\ \E r \in SeqProduct([j \in 1..NPops |->
                   export(pops[j], eis[j], cfg.wt, cfg.order, cfg.kf, Rat(i, Ncyc),
                          log.slices[j])]) :
         LET f == FirstRaised(r)
         IN  /\ pops' = PopsAfter(r)
             /\ log' = [log EXCEPT !.slices = SlicesAfter(r)]
             /\ exported' = IF f = 0 THEN [j \in 1..NPops |-> r[j].ret] ELSE exported
             /\ pc' = IF f = 0 THEN "route" ELSE "raised"
             /\ err' = IF f = 0 THEN err ELSE Raised("export", r[f].raised)
    /\ UNCHANGED <<args, i, pop_fits, eis, alpha, allot, stopped, call, nops, own>>

(***************************************************************************)
(* Destination selection: beta, the destination strengths, and the routing  *)
(* of the exported individuals, pooled (ret) or group by group (not ret).   *)
(***************************************************************************)
\* strengths_dest
DestStrengths(maxf, minf, beta) ==
    IF maxf = minf
    THEN [j \in 1..NPops |-> ROne]
    ELSE [j \in 1..NPops |->
            PyPow(strength(pops[j], cfg.b, cfg.b_burden, maxf, minf, log.slices[j], "b").ret,
                  beta)]

\* the log slices once the destination strengths are computed
DestSlices(maxf, minf) ==
    IF maxf = minf
    THEN log.slices
    ELSE [j \in 1..NPops |->
            strength(pops[j], cfg.b, cfg.b_burden, maxf, minf, log.slices[j], "b").log]

\* [s/sum(strengths) for s in strengths] and the multinomial draw raise this
ScaleRaises(strengths) ==
    IF \E k \in 1..Len(strengths) : IsComplex(strengths[k]) THEN "TypeError"
    ELSE IF Len(strengths) > 0 /\ RSum(strengths).num = 0 THEN "ZeroDivisionError"
    ELSE IF MultinomialRaises([k \in 1..Len(strengths) |-> RDiv(strengths[k], RSum(strengths))])
    THEN "ValueError"
    ELSE "none"

Scaled(strengths) == [k \in 1..Len(strengths) |-> RDiv(strengths[k], RSum(strengths))]

\* a distribution that hands every target the head of the group, as if
\* group = group[a:] were missing
ShareFromStart(group, a, k) == SubSeq(group, 1, a[k])

\* the part of group that the k-th target receives under allotment a
Share(group, a, k) ==
    LET before == SumSeq(SubSeq(a, 1, k - 1))
    IN  SubSeq(group, before + 1, before + a[k])

\* for a, p in zip(allotment, targets): p.receive(group[:a]); group = group[a:]
Distribute(ps, group, a, targets) ==
    [j \in 1..Len(ps) |->
        IF \E k \in 1..Len(targets) : targets[k] = j
        THEN receive(ps[j], Share(group, a, CHOOSE k \in 1..Len(targets) : targets[k] = j)).pop
        ELSE ps[j]]

\* ret: one pool, shuffled, allotted to all populations
RoutePooled(dest) ==
    LET pool == Flatten(exported)
        all == [j \in 1..NPops |-> j]
        raised == ScaleRaises(dest)
    IN  IF raised # "none"
        THEN {[pops |-> pops, allot |-> allot, exported |-> sh, raised |-> raised] :
                 sh \in Perms(pool)}
        ELSE {[pops |-> Distribute(pops, sh, a, all), allot |-> a, exported |-> <<>>,
               raised |-> "none"] :
                 sh \in Perms(pool), a \in Allotments(Len(pool), Scaled(dest))}

\* a choice of destinations that does not exclude the origin
pop_indxs_all(n, j) == SetToSortedSeq(1..n)

\* pop_indxs_inotj = pop_indxs[:j] + pop_indxs[j+1:]
pop_indxs_inotj(n, j) == SetToSortedSeq((1..n) \ {j})

RECURSIVE RouteGroups(_, _, _, _, _)
\* not ret: the group of population j is shuffled and allotted to the others
RouteGroups(j, ps, groups, holder, dest) ==
    IF j > Len(ps)
    THEN {[pops |-> ps, allot |-> holder, exported |-> groups, raised |-> "none"]}
    ELSE LET inotj == pop_indxs_inotj(Len(ps), j)
             strengths_inotj == [k \in 1..Len(inotj) |-> dest[inotj[k]]]
             raised == ScaleRaises(strengths_inotj)
         IN  IF raised = "ZeroDivisionError"
             THEN {[pops |-> ps, allot |-> holder, exported |-> groups, raised |-> raised]}
             ELSE IF raised # "none"
             THEN {[pops |-> ps, allot |-> holder, exported |-> [groups EXCEPT ![j] = sh],
                    raised |-> raised] : sh \in Perms(groups[j])}
             ELSE UNION {RouteGroups(j + 1,
                                     Distribute(ps, sh, a, inotj),
                                     [groups EXCEPT ![j] = sh],
                                     [k \in 1..Len(ps) |->
                                        IF k = j THEN holder[k]
                                        ELSE holder[k] + a[IF k < j THEN k ELSE k - 1]],
                                     dest) :
                            sh \in Perms(groups[j]),
                            a \in Allotments(Len(groups[j]), Scaled(strengths_inotj))}

\* the outcomes of the phase: [pops, allot, exported, slices, raised]
DestinationOutcomes ==
    LET maxf == MaxOf(pop_fits)
        minf == MinOf(pop_fits)
    IN  IF AnnealRaises(cfg.beta, Ncyc)
        THEN {[pops |-> pops, allot |-> allot, exported |-> exported, slices |-> log.slices,
               raised |-> "ZeroDivisionError"]}
        ELSE LET dest == DestStrengths(maxf, minf, get_alphabeta(cfg.beta, i, Ncyc))
                 routed == IF cfg.ret THEN RoutePooled(dest)
                           ELSE RouteGroups(1, pops, exported, Zeros(NPops), dest)
             IN  {[pops |-> r.pops, allot |-> r.allot, exported |-> r.exported,
                   slices |-> DestSlices(maxf, minf), raised |-> r.raised] : r \in routed}

DestinationSelection ==
    /\ pc = "route"
    /\ \E r \in DestinationOutcomes :
         /\ pops' = r.pops
         /\ allot' = r.allot
         /\ exported' = r.exported
         /\ log' = [log EXCEPT !.slices = r.slices,
                               !.A = IF r.raised = "none" THEN r.allot ELSE @]
         /\ pc' = IF r.raised = "none" THEN "stop" ELSE "raised"
         /\ err' = IF r.raised = "none" THEN err ELSE Raised("route", r.raised)
    /\ UNCHANGED <<args, i, pop_fits, eis, alpha, stopped, call, nops, own>>

(***************************************************************************)
(* The end of a cycle: Ncycles is logged, stop_criteria (if given) may end  *)
(* the run, otherwise the next cycle starts or the loop is over.            *)
(***************************************************************************)
\* pop_fits, eis, exported and allot are assigned anew in the next cycle
\* before they are read; alpha is not
NextCycle ==
    /\ pc = "stop"
    /\ IF i < Ncyc
       THEN /\ i' = i + 1
            /\ pc' = "evolve"
            /\ log' = NewLog(NPops, i)
            /\ pop_fits' = <<>>
            /\ eis' = <<>>
            /\ exported' = <<>>
            /\ allot' = <<>>
       ELSE /\ i' = i
            /\ pc' = "done"
            /\ log' = [log EXCEPT !.Ncycles = i]
            /\ UNCHANGED <<pop_fits, eis, exported, allot>>
    /\ UNCHANGED <<args, pops, alpha, err, stopped, call, nops, own>>

\* a stop that is tested before the counter of completed cycles is set
StopBeforeCount ==
    /\ pc = "stop"
    /\ stopped' = TRUE
    /\ pc' = "done"
    /\ UNCHANGED <<args, pops, i, pop_fits, eis, exported, alpha, allot, log, err, call, nops,
                   own>>

\* log.attrs["Ncycles"] = i, then stop_criteria() == True: break
StopCriteria ==
    /\ pc = "stop"
    /\ stopped' = TRUE
    /\ pc' = "done"
    /\ log' = [log EXCEPT !.Ncycles = i]
    /\ UNCHANGED <<args, pops, i, pop_fits, eis, exported, alpha, allot, err, call, nops, own>>

Next ==
    \/ EvolutionPhase
    \/ ExportNumber
    \/ MemberSelection
    \/ DestinationSelection
    \/ NextCycle
    \/ StopCriteria

Spec == Init /\ [][Next]_vars

(***************************************************************************)
(* One Population on its own: after Population.__init__ its methods         *)
(* evolute, export and receive are called in any order with any arguments,  *)
(* until one raises or MaxOps calls were made.  pops = <<the population>>,  *)
(* cfg.mode is its mode and cfg.gpc the ngen passed to evolute.             *)
(***************************************************************************)
PopStrategies ==
    {[algo |-> "ES", mu |-> 1, size |-> 2], [algo |-> "ES", mu |-> 2, size |-> 2],
     [algo |-> "DE", mu |-> 0, size |-> 2]}

PopConfigs ==
    {c \in Configs : c.wt = "uni" /\ c.ret /\ c.alpha = Float(1, 1) /\ c.beta = Float(1, 1)}

\* the arguments wt, order, kf and gfrac export is called with
ExportArgs ==
    {[wt |-> "uni", order |-> "None", kf |-> KfNone, gfrac |-> ROne]}
    \cup {[wt |-> w, order |-> o, kf |-> k, gfrac |-> ROne] :
            w \in {"log", "lin", "exp"}, o \in {"wb", "bw"}, k \in {0, 1}}
    \cup {[wt |-> "lin", order |-> o, kf |-> 1, gfrac |-> g] :
            o \in {"awb", "abw"}, g \in {Rat(1, 4), ROne}}

\* the lists receive is called with: individuals that are not members
ReceiveLists(p) ==
    UNION {Perms(SetToSortedSeq(S)) : S \in SUBSET (Individuals \ Range(p.members))}

PopInit ==
    /\ cfg \in PopConfigs
    /\ optimizers \in {<<s>> : s \in PopStrategies}
    /\ Ncyc = 1
    /\ \E n \in 0..(MaxMembers - 1) :
           pops = <<NewPopulation(optimizers[1], optimizers[1].algo, [k \in 1..n |-> k],
                                  cfg.mode)>>
    /\ pc = "pop"
    /\ i = 1
    /\ pop_fits = <<>>
    /\ eis = <<>>
    /\ exported = <<>>
    /\ alpha = Unbound
    /\ allot = <<>>
    /\ log = NewLog(1, 0)
    /\ err = NoError
    /\ stopped = FALSE
    /\ call = NoCall
    /\ nops = 0
    /\ own = NoFitness

\* the bookkeeping every call of PopSpec shares
Called(c, r) ==
    /\ pops' = <<r.pop>>
    /\ call' = c
    /\ nops' = nops + 1
    /\ pc' = IF c.raised = "none" THEN "pop" ELSE "raised"
    /\ err' = IF c.raised = "none" THEN err ELSE Raised(c.op, c.raised)
    /\ UNCHANGED <<args, i, eis, alpha, allot, stopped>>

PopEvolve ==
    /\ pc = "pop"
    /\ nops < MaxOps
    /\ LET p == pops[1]
           runs == eval_algo_popnumber(p.strategy, Len(p.members))
       IN  \E out \in (IF runs THEN StrategyEvolute(p.members, Perms(p.members))
                       ELSE {NoOutcome}) :
             LET r == PopEvolute(p, cfg.gpc, out, LogSlice)
             IN  /\ Called([NoCall EXCEPT !.op = "evolute", !.n = Len(p.members),
                                          !.raised = r.raised], r)
                 /\ log' = [log EXCEPT !.slices = <<r.log>>]
                 /\ pop_fits' = IF r.raised = "none" THEN <<r.ret>> ELSE pop_fits
                 /\ own' = IF runs
                           THEN [x \in Individuals |->
                                   IF \E k \in 1..Len(out.members) : out.members[k] = x
                                   THEN out.fitnesses[CHOOSE k \in 1..Len(out.members) :
                                                          out.members[k] = x]
                                   ELSE own[x]]
                           ELSE own
                 /\ UNCHANGED exported

PopExport ==
    /\ pc = "pop"
    /\ nops < MaxOps
    /\ LET p == pops[1]
       IN  \E ei \in 0..Len(p.members), a \in ExportArgs :
             \E r \in export(p, ei, a.wt, a.order, a.kf, a.gfrac, LogSlice) :
                /\ Called([NoCall EXCEPT !.op = "export", !.n = Len(p.members), !.ei = ei,
                                         !.wt = a.wt, !.order = a.order, !.kf = a.kf,
                                         !.gfrac = a.gfrac, !.ret = r.ret,
                                         !.raised = r.raised], r)
                /\ log' = [log EXCEPT !.slices = <<r.log>>]
                /\ exported' = <<r.ret>>
                /\ own' = [x \in Individuals |-> IF x \in Range(r.ret) THEN NaN ELSE own[x]]
                /\ UNCHANGED pop_fits

PopReceive ==
    /\ pc = "pop"
    /\ nops < MaxOps
    /\ LET p == pops[1]
       IN  \E individuals \in ReceiveLists(p) :
             LET r == receive(p, individuals)
             IN  /\ Called([NoCall EXCEPT !.op = "receive", !.n = Len(p.members),
                                          !.individuals = individuals,
                                          !.raised = r.raised], r)
                 /\ own' = [x \in Individuals |->
                              IF x \in Range(individuals) THEN NaN ELSE own[x]]
                 /\ UNCHANGED <<log, pop_fits, exported>>

PopNext ==
    \/ PopEvolve
    \/ PopExport
    \/ PopReceive

PopSpec == PopInit /\ [][PopNext]_vars

(***************************************************************************)
(* Properties of the cycle of AEO.evolute (Spec).                           *)
(***************************************************************************)
TotalMembers == SumSeq([j \in 1..NPops |-> Len(pops[j].members)])

\* the places (population, index) that hold individual x
Holders(x) == {<<j, k>> \in (1..NPops) \X (1..MaxMembers) :
                  k <= Len(pops[j].members) /\ pops[j].members[k] = x}

\* a cycle got past its routing step
Routed == pc \in {"stop", "done"} /\ err = NoError

\* C1: with ret = true, once the routing step of a cycle is over every
\* individual is held by exactly one population, the populations' sizes sum
\* to the initial total and each n is the size of its population, in every
\* cycle; before the routing step the exported individuals are the ones
\* missing from that total.
C1_MassConservation ==
    cfg.ret =>
        /\ Routed => /\ \A x \in Individuals : Cardinality(Holders(x)) = 1
                     /\ TotalMembers = MaxMembers
                     /\ SumSeq([j \in 1..NPops |-> pops[j].n]) = MaxMembers
                     /\ SumSeq(allot) = SumSeq(eis)
        /\ pc \in {"evolve", "count", "export"} => TotalMembers = MaxMembers
        /\ pc = "route" => TotalMembers + Len(Flatten(exported)) = MaxMembers

\* a second cycle of a ret = true run in which individuals moved
C1_Witness ==
    /\ cfg.ret /\ pc = "stop" /\ i = 2 /\ log.migration
    /\ SumSeq(allot) > 1
    /\ \E j \in 1..NPops : allot[j] > 0 /\ allot[j] # eis[j]

\* C2: with ret = false, once the routing step of a cycle is over no
\* population holds an individual of the group it exported in that cycle.
C2_NoReturnToOrigin ==
    (~cfg.ret /\ pc = "stop") =>
        \A j \in 1..NPops : Range(exported[j]) \cap Range(pops[j].members) = {}

\* a ret = false cycle of three populations in which a group of two was
\* split between the two other populations
C2_Witness ==
    /\ ~cfg.ret /\ pc = "stop" /\ NPops = 3
    /\ \E j \in 1..NPops : Len(exported[j]) = 2
    /\ Cardinality({j \in 1..NPops : allot[j] > 0}) >= 2

\* C3: with ret = false and at least two populations, in a cycle with
\* migration the routing step does not raise and leaves the total member
\* count at what it was before the export step.  (Ncyc > 1 keeps the
\* annealing of beta defined.)
C3_RoutingCompletes ==
    (~cfg.ret /\ NPops >= 2 /\ Ncyc > 1 /\ log.migration) =>
        /\ ~(pc = "raised" /\ err.at = "route")
        /\ pc = "stop" => TotalMembers = MaxMembers /\ SumSeq(allot) = SumSeq(eis)

\* C4: when Population.export is about to be called, every export count is
\* between 0 and the number of members of its population.
C4_ExportCountBound ==
    pc = "export" =>
        \A j \in 1..NPops : 0 <= eis[j] /\ eis[j] <= Len(pops[j].members)

\* a cycle with migration whose draw took all members of one population and
\* none of another
C4_Witness ==
    /\ pc = "export" /\ log.migration
    /\ \E j \in 1..NPops : eis[j] > 0 /\ eis[j] = Len(pops[j].members)
    /\ \E j \in 1..NPops : eis[j] = 0 /\ Len(pops[j].members) > 0

\* C8: a cycle in which all populations report the same fitness does not
\* raise in its export-count phase, and it reaches the export step with all
\* counts 0 and leaves it with nothing exported.
C8_DegenerateCycleCompletes ==
    (pop_fits # <<>> /\ MaxOf(pop_fits) = MinOf(pop_fits)) =>
        /\ ~(pc = "raised" /\ err.at = "count")
        /\ pc = "export" => eis = Zeros(NPops)
        /\ pc = "route" => \A j \in 1..NPops : exported[j] = <<>>

\* C10: for the unburdened fitness measure, in a cycle with fmax # fmin the
\* strength logged for a population whose fitness is the global best (fmax
\* in mode max, fmin in mode min) is exactly 1 and the one logged for a
\* population whose fitness is the global worst is exactly 0.
C10_StrengthEndpoints ==
    (pc = "export" /\ log.migration /\ cfg.g = "fitness" /\ ~cfg.g_burden) =>
        LET maxf == MaxOf(pop_fits)
            minf == MinOf(pop_fits)
            best == IF cfg.mode = "max" THEN maxf ELSE minf
            worst == IF cfg.mode = "max" THEN minf ELSE maxf
        IN  \A j \in 1..NPops :
               /\ pop_fits[j] = best => log.slices[j].g = ROne
               /\ pop_fits[j] = worst => log.slices[j].g = RZero
               /\ log.slices[j].g =
                     strength(pops[j], "fitness", FALSE, maxf, minf, LogSlice, "g").ret

\* a cycle in mode min in which the strengths were computed for populations
\* of different fitness
C10_Witness ==
    /\ pc = "export" /\ log.migration /\ cfg.g = "fitness" /\ ~cfg.g_burden
    /\ cfg.mode = "min"
    /\ \E j, k \in 1..NPops : log.slices[j].g = ROne /\ log.slices[k].g = RZero

(***************************************************************************)
(* Properties of one Population (PopSpec).                                  *)
(***************************************************************************)
\* the population was evaluated: member_fitnesses exists
Evaluated == pops[1].has_mf

\* C5: export called on an evaluated population with a count k of 0..n
\* returns exactly k distinct individuals and leaves n - k members, whatever
\* the weighting, the order and kf.
C5_ExportExact ==
    (call.op = "export" /\ Evaluated /\ call.ei <= call.n) =>
        /\ call.raised = "none"
        /\ Len(call.ret) = call.ei
        /\ Cardinality(Range(call.ret)) = call.ei
        /\ Len(pops[1].members) = call.n - call.ei

\* C6: once the population was evaluated, after every call members and
\* member_fitnesses have n entries each and every member is paired at its
\* index with its own fitness (NaN for a member received since the last
\* evaluation).
C6_Aligned ==
    Evaluated =>
        /\ Len(pops[1].members) = Len(pops[1].member_fitnesses)
        /\ pops[1].n = Len(pops[1].members)
        /\ \A k \in 1..Len(pops[1].members) :
              pops[1].member_fitnesses[k] = own[pops[1].members[k]]

\* an export by rank that met tied fitnesses and a received member
C6_Witness ==
    /\ Evaluated /\ call.op = "export" /\ call.wt # "uni" /\ call.raised = "none"
    /\ \E k \in 1..Len(pops[1].members) : pops[1].member_fitnesses[k] = NaN
    /\ \E k, l \in 1..Len(pops[1].members) :
          /\ k # l
          /\ pops[1].member_fitnesses[k] # NaN
          /\ pops[1].member_fitnesses[k] = pops[1].member_fitnesses[l]

\* the step is a call of export with count 0 or of receive with an empty list
NoOpCall ==
    /\ nops' = nops + 1
    /\ \/ call'.op = "export" /\ call'.ei = 0
       \/ call'.op = "receive" /\ call'.individuals = <<>>

\* C7: export with count 0 and receive with an empty list leave members
\* (content and order), member_fitnesses, n and fitlog as they were.
C7_NoOpFrame ==
    [][NoOpCall =>
          /\ pops'[1].members = pops[1].members
          /\ pops'[1].member_fitnesses = pops[1].member_fitnesses
          /\ pops'[1].n = pops[1].n
          /\ pops'[1].fitlog = pops[1].fitlog]_vars

\* C9: export with count 0 on an evaluated population of any size does not
\* raise and returns nothing, whatever the weighting.
C9_ZeroCountExport ==
    (call.op = "export" /\ call.ei = 0 /\ Evaluated) =>
        call.raised = "none" /\ call.ret = <<>>

(***************************************************************************)
(* The functions of AEO and Population on their own (FnSpec): the initial   *)
(* state holds one pending call with its arguments in call, and the action  *)
(* for its function applies it and records what it returns or raises.       *)
(***************************************************************************)
\* fitness levels of the populations strength is called on
MaxLevel == 2
\* Ncyc of the calls of get_alphabeta is drawn from 1..MaxAnneal
MaxAnneal == 4

Pending(op, a) == [op |-> op, args |-> a, done |-> FALSE, ret |-> <<>>, raised |-> "none"]

Returned(c, ret, raised) == [c EXCEPT !.done = TRUE, !.ret = ret, !.raised = raised]

\* a population as it stands after an evolution phase: n members, the
\* fitnesses fl recorded so far
PopWithHistory(mode, n, fl) ==
    [NewPopulation([algo |-> "ES", mu |-> 1, size |-> n], "ES", [k \in 1..n |-> k], mode)
        EXCEPT !.fitlog = fl, !.last_ngen = 1]

\* the fitness histories of one or two cycles
FitLogs == UNION {[1..len -> 0..MaxLevel] : len \in 1..2}

\* Population.strength as AEO.evolute calls it: fmax and fmin are the
\* extremes of the population's fitness, the last of h[1], and the fitness
\* h[2] of the rest
StrengthCalls ==
    {Pending("strength",
             [p |-> PopWithHistory(m, n, h[1]), g |-> g, g_burden |-> gb,
              fmax |-> IF h[1][Len(h[1])] > h[2] THEN h[1][Len(h[1])] ELSE h[2],
              fmin |-> IF h[1][Len(h[1])] < h[2] THEN h[1][Len(h[1])] ELSE h[2]]) :
        m \in {"max", "min"}, n \in 0..MaxMembers,
        g \in {"fitness", "improve"}, gb \in BOOLEAN,
        h \in {x \in FitLogs \X (0..MaxLevel) : x[2] # x[1][Len(x[1])]}}

\* AEO.get_alphabeta(aorb, ncyc, Ncyc)
AlphaBetaCalls ==
    {Pending("get_alphabeta", [aorb |-> a, ncyc |-> cn[1], Ncyc |-> cn[2]]) :
        a \in {Float(0, 1), Float(1, 2), Float(3, 1), Annealed("up"), Annealed("down")},
        cn \in {x \in (1..MaxAnneal) \X (1..MaxAnneal) : x[1] <= x[2]}}

\* arguments as AEO.__init__ tests their types: a bool, and a Python int
\* where a float or a bool is asked for
Bool(v) == [kind |-> "bool", val |-> v]
PyInt(n) == [kind |-> "int", val |-> RInt(n)]

\* a constructor that does not look at kf
AEO_init_any_kf(a) ==
    CASE a.mode \notin {"max", "min"} -> "ValueError"
      [] OTHER ->
           IF \/ a.alpha.kind \notin {"float", "up", "down"}
              \/ (a.alpha.kind = "float" /\ RLt(a.alpha.val, RZero))
              \/ a.g \notin {"fitness", "improve"}
              \/ a.g_burden.kind # "bool"
              \/ a.q.kind \notin {"float", "up", "down"}
              \/ a.wt \notin {"log", "lin", "exp", "uni"}
              \/ a.order \notin {"wb", "bw", "awb", "abw", "None"}
              \/ a.beta.kind \notin {"float", "up", "down"}
              \/ (a.beta.kind = "float" /\ RLt(a.beta.val, RZero))
              \/ a.b \notin {"fitness", "improve"}
              \/ a.b_burden.kind # "bool"
              \/ a.ret.kind # "bool"
           THEN "Exception"
           ELSE "none"

\* AEO.__init__(mode, ..., alpha, g, g_burden, q, wt, beta, b, b_burden, ret,
\* order, kf) with consistent optimizers: the exception its checks raise,
\* in their order, "none" when the object is constructed
AEO_init(a) ==
    CASE a.mode \notin {"max", "min"} -> "ValueError"
      [] OTHER ->
           IF \/ a.alpha.kind \notin {"float", "up", "down"}
              \/ (a.alpha.kind = "float" /\ RLt(a.alpha.val, RZero))
              \/ a.g \notin {"fitness", "improve"}
              \/ a.g_burden.kind # "bool"
              \/ a.q.kind \notin {"float", "up", "down"}
              \/ a.wt \notin {"log", "lin", "exp", "uni"}
              \/ a.order \notin {"wb", "bw", "awb", "abw", "None"}
              \/ a.kf \notin {0, 1, KfNone}
              \/ a.beta.kind \notin {"float", "up", "down"}
              \/ (a.beta.kind = "float" /\ RLt(a.beta.val, RZero))
              \/ a.b \notin {"fitness", "improve"}
              \/ a.b_burden.kind # "bool"
              \/ a.ret.kind # "bool"
           THEN "Exception"
           ELSE "none"

\* the arguments the constructor is called with, valid and not
InitCalls ==
    {Pending("__init__",
             [mode |-> m, alpha |-> ab[1], g |-> gb[1], g_burden |-> t[1], q |-> t[4],
              wt |-> e[1], order |-> e[2], kf |-> e[3],
              beta |-> ab[2], b |-> gb[2], b_burden |-> t[2], ret |-> t[3]]) :
        m \in {"max", "min", "MAX"},
        ab \in {Float(1, 1), Float(-1, 1), Annealed("up"), PyInt(-1)}
                 \X {Float(1, 1), Float(-1, 2)},
        gb \in {"fitness", "other"} \X {"improve", "other"},
        e \in {"uni", "lin", "other"} \X {"wb", "None", "ab"} \X {0, KfNone, 2},
        t \in {Bool(TRUE), PyInt(1)} \X {Bool(FALSE), PyInt(0)} \X {Bool(TRUE), PyInt(1)}
                 \X {Float(1, 1), PyInt(1)}}

\* an evolute that omits the comparison of the two lengths
EvoluteStartUnchecked(opts, mode, x0, pop0) ==
    [pops |-> BuildPops(opts, mode, x0, pop0), raised |-> "none"]

\* AEO.evolute(Ncyc, x0 = x0, pop0 = pop0) up to the first cycle: self.pops,
\* <<>> while there is none, and the exception raised
EvoluteStart(opts, mode, x0, pop0) ==
    IF Len(x0) # Len(pop0)
    THEN [pops |-> <<>>, raised |-> "AssertionError"]
    ELSE [pops |-> BuildPops(opts, mode, x0, pop0), raised |-> "none"]

\* AEO.evolute(Ncyc, npop0 = npop0) up to the first cycle: x0 is sampled and
\* pop0 names population i npop0[i] times; len_x0 is the member axis of the log
EvoluteStartSplit(opts, mode, npop0) ==
    LET x0 == [k \in 1..SumSeq(npop0) |-> k]
        r == EvoluteStart(opts, mode, x0, Dup(npop0, 1))
    IN  [pops |-> r.pops, raised |-> r.raised, len_x0 |-> Len(x0)]

\* x0 and pop0 of any lengths up to MaxMembers; pop0 holds any integers, of
\* which 1 and 2 name the two populations and 3 names none
EvoluteCalls ==
    {Pending("evolute", [x0 |-> [k \in 1..xp[1] |-> k], pop0 |-> xp[2]]) :
        xp \in (0..MaxMembers) \X UNION {[1..len -> 1..3] : len \in 0..MaxMembers}}

\* npop0 of one to three counts for the two populations
EvoluteSplitCalls ==
    {Pending("evolute_npop0", [npop0 |-> n]) :
        n \in {x \in UNION {[1..len -> 0..2] : len \in 1..3} : SumSeq(x) <= MaxMembers}}

\* a population of n members evaluated to the fitnesses 1..n, the worse the
\* earlier in mode max
Ranked(mode, n) ==
    [NewPopulation([algo |-> "ES", mu |-> 1, size |-> n], "ES", [k \in 1..n |-> k], mode)
        EXCEPT !.member_fitnesses = [k \in 1..n |-> k], !.has_mf = TRUE,
               !.fitlog = <<IF mode = "max" THEN n ELSE 1>>, !.last_ngen = 1]

\* Population.export as the member selection of cycle ncyc of Ncyc calls it
ExportCalls ==
    {Pending("export",
             [p |-> Ranked(m, n), ei |-> 0, wt |-> "lin", order |-> o, kf |-> 1,
              ncyc |-> cn[1], Ncyc |-> cn[2]]) :
        m \in {"max", "min"}, n \in 2..MaxMembers, o \in {"wb", "bw", "awb", "abw"},
        cn \in {x \in (1..MaxAnneal) \X (1..MaxAnneal) : x[1] <= x[2]}}

\* the values of q AEO.__init__ accepts: any float, 'up' and 'down'
AcceptedQ ==
    {Float(-1, 1), Float(0, 1), Float(1, 2), Float(1, 1), Float(3, 1),
     Annealed("up"), Annealed("down")}

\* the binomial probabilities of cycle ncyc of Ncyc for two populations whose
\* export strengths, raised to alpha, are 0, 1/2 or 1
BinomialWtsCalls ==
    {Pending("binomial_wts",
             [strengths_exp |-> <<Rat(s[1], 2), Rat(s[2], 2)>>, q |-> q,
              ncyc |-> cn[1], Ncyc |-> cn[2]]) :
        s \in (0..2) \X (0..2), q \in AcceptedQ,
        cn \in {x \in (1..MaxAnneal) \X (1..MaxAnneal) : x[1] <= x[2]}}

\* the upper bound of the variables of DEmod
MaxCoord == 2

\* an inside test that leaves out the bounds themselves
EnsureBoundsOpen(v, low, high) ==
    (IF v < low THEN <<low>> ELSE <<>>)
    \o (IF v > high THEN <<high>> ELSE <<>>)
    \o (IF low < v /\ v < high THEN <<v>> ELSE <<>>)

\* what one pass of the loop of ensure_bounds appends to vec_new: three ifs
EnsureBoundsAt(v, low, high) ==
    (IF v < low THEN <<low>> ELSE <<>>)
    \o (IF v > high THEN <<high>> ELSE <<>>)
    \o (IF low <= v /\ v <= high THEN <<v>> ELSE <<>>)

RECURSIVE ensure_bounds_from(_, _, _)
ensure_bounds_from(vec, bounds, k) ==
    IF k > Len(bounds) THEN <<>>
    ELSE EnsureBoundsAt(vec[k], bounds[k].low, bounds[k].high)
         \o ensure_bounds_from(vec, bounds, k + 1)

\* DEmod.ensure_bounds(vec, bounds), for a vec as long as bounds at least
ensure_bounds(vec, bounds) == ensure_bounds_from(vec, bounds, 1)

\* DEmod.ensure_bounds on vectors of one or two variables with components
\* below, on, between and above the bounds; bounds of any two numbers of
\* 0..MaxCoord, low above high included
EnsureBoundsCalls ==
    {Pending("ensure_bounds", [vec |-> vb[1], bounds |-> vb[2]]) :
        vb \in {x \in (UNION {[1..dim -> (0 - 1)..(MaxCoord + 1)] : dim \in 1..2})
                      \X (UNION {[1..dim -> [low : 0..MaxCoord, high : 0..MaxCoord]] :
                                   dim \in 1..2}) :
                  Len(x[1]) = Len(x[2])}}

\* the largest population Population.evolute is called on by itself
MaxResize == 6

\* the strategies a user can construct: DEmod.__init__ wants npop > 3
Constructible == {s \in [algo : {"DE"}, mu : {0}, size : 1..MaxResize]
                       \cup [algo : {"ES"}, mu : 1..2, size : {2, 4}] :
                     ~StrategyInitRaises(s)}

\* Population.evolute on a population whose size migrations have changed:
\* n members under a strategy made for s.size, before or after a first phase
PopEvoluteCalls ==
    {Pending("pop_evolute",
             [p |-> [NewPopulation(s, s.algo, [k \in 1..n |-> k], "max")
                        EXCEPT !.fitlog = fl], ngen |-> 1]) :
        s \in Constructible, n \in 0..MaxResize, fl \in {<<>>, <<0>>}}

FnInit ==
    /\ cfg \in {c \in PopConfigs : c.mode = "max"}
    /\ optimizers = <<[algo |-> "ES", mu |-> 1, size |-> 2], [algo |-> "ES", mu |-> 2, size |-> 2]>>
    /\ Ncyc = 1
    /\ pops = <<>>
    /\ pc = "fn"
    /\ i = 0
    /\ pop_fits = <<>>
    /\ eis = <<>>
    /\ exported = <<>>
    /\ alpha = Unbound
    /\ allot = <<>>
    /\ log = NewLog(0, 0)
    /\ err = NoError
    /\ stopped = FALSE
    /\ call \in StrengthCalls \cup AlphaBetaCalls \cup InitCalls \cup EvoluteCalls
                \cup ExportCalls \cup PopEvoluteCalls \cup BinomialWtsCalls
                \cup EvoluteSplitCalls \cup EnsureBoundsCalls
    /\ nops = 0
    /\ own = NoFitness

\* the bookkeeping every call of FnSpec shares
Applied(ret, raised) ==
    /\ call' = Returned(call, ret, raised)
    /\ err' = IF raised = "none" THEN err ELSE Raised(call.op, raised)
    /\ pc' = IF raised = "none" THEN "returned" ELSE "raised"
    /\ UNCHANGED <<cfg, optimizers, Ncyc, i, pop_fits, eis, exported, alpha, allot, log,
                   stopped, nops, own>>

CallStrength ==
    /\ pc = "fn" /\ call.op = "strength"
    /\ Applied(strength(call.args.p, call.args.g, call.args.g_burden, call.args.fmax,
                        call.args.fmin, LogSlice, "g"), "none")
    /\ UNCHANGED pops

CallGetAlphaBeta ==
    /\ pc = "fn" /\ call.op = "get_alphabeta"
    /\ IF AnnealRaises(call.args.aorb, call.args.Ncyc)
       THEN Applied(<<>>, "ZeroDivisionError")
       ELSE Applied(get_alphabeta(call.args.aorb, call.args.ncyc, call.args.Ncyc), "none")
    /\ UNCHANGED pops

CallInit ==
    /\ pc = "fn" /\ call.op = "__init__"
    /\ LET r == AEO_init(call.args)
       IN  Applied(IF r = "none" THEN <<"AEO">> ELSE <<>>, r)
    /\ UNCHANGED pops

CallEvolute ==
    /\ pc = "fn" /\ call.op = "evolute"
    /\ LET r == EvoluteStart(optimizers, cfg.mode, call.args.x0, call.args.pop0)
       IN  /\ Applied(<<>>, r.raised)
           /\ pops' = r.pops

CallEvoluteSplit ==
    /\ pc = "fn" /\ call.op = "evolute_npop0"
    /\ LET r == EvoluteStartSplit(optimizers, cfg.mode, call.args.npop0)
       IN  /\ Applied(<<r.len_x0>>, r.raised)
           /\ pops' = r.pops

CallExport ==
    /\ pc = "fn" /\ call.op = "export"
    /\ \E r \in export(call.args.p, call.args.ei, call.args.wt, call.args.order, call.args.kf,
                        Rat(call.args.ncyc, call.args.Ncyc), LogSlice) :
          Applied(r, r.raised)
    /\ UNCHANGED pops

CallPopEvolute ==
    /\ pc = "fn" /\ call.op = "pop_evolute"
    /\ \E out \in EvoluteOutcomes(call.args.p) :
          LET r == PopEvolute(call.args.p, call.args.ngen, out, LogSlice)
          IN  Applied(r, r.raised)
    /\ UNCHANGED pops

\* strengths_exp_scaled, qt, binomial_wts and the check np.random.binomial
\* makes of each probability
CallBinomialWts ==
    /\ pc = "fn" /\ call.op = "binomial_wts"
    /\ IF RSum(call.args.strengths_exp).num = 0 \/ AnnealRaises(call.args.q, call.args.Ncyc)
       THEN Applied(<<>>, "ZeroDivisionError")
       ELSE LET w == BinomialWts(call.args.strengths_exp,
                                 get_q(call.args.q, call.args.ncyc, call.args.Ncyc))
            IN  Applied(w, IF \E j \in 1..Len(w) : BinomialRaises(w[j])
                           THEN "ValueError" ELSE "none")
    /\ UNCHANGED pops

CallEnsureBounds ==
    /\ pc = "fn" /\ call.op = "ensure_bounds"
    /\ Applied(ensure_bounds(call.args.vec, call.args.bounds), "none")
    /\ UNCHANGED pops

FnNext ==
    \/ CallEnsureBounds
    \/ CallEvoluteSplit
    \/ CallBinomialWts
    \/ CallStrength
    \/ CallGetAlphaBeta
    \/ CallInit
    \/ CallEvolute
    \/ CallExport
    \/ CallPopEvolute

FnSpec == FnInit /\ [][FnNext]_vars

(***************************************************************************)
(* class DEmod (DESpec).  An individual is a vector of one variable, a      *)
(* sequence of one number; bounds is the sequence of the [low, high] of the  *)
(* variables; fit is a function of the individual.  call is the frame of    *)
(* DEmod.evolute: its arguments and its local variables population, gen,    *)
(* x_t_lst, v_trial_lst, gen_scores, best_scores, x_best and y_best;        *)
(* last_scores keeps the gen_scores of the generation before.               *)
(***************************************************************************)
\* the population size of the DEmod object
DENpop == 4

\* the largest ngen
MaxGen == 2

\* self.bounds: one variable of type int
DEBounds == <<[low |-> 0, high |-> MaxCoord]>>

\* GenIndv(bounds): any individual within the bounds
GenIndv(bounds) == {<<v>> : v \in bounds[1].low..bounds[1].high}

\* the argument x0: None by default, or a list of individuals
NoX0 == [given |-> FALSE, list |-> <<>>]
X0(list) == [given |-> TRUE, list |-> list]

\* InitPopulation(x0): x0 itself, or npop generated individuals if x0 is
\* None or empty
InitPopulation(npop, bounds, x0) ==
    IF x0.given /\ x0.list # <<>>
    THEN {x0.list}
    ELSE [1..npop -> GenIndv(bounds)]

\* a selection that also takes a trial of equal score
ReplacesOnTie(score_trial, score_target) == score_trial >= score_target

\* if score_trial > score_target
Replaces(score_trial, score_target) == score_trial > score_target

\* random.sample(candidates, 3) for slot j: three different slots other than j
Sample3(npop, j) ==
    {t \in (1..npop) \X (1..npop) \X (1..npop) :
        /\ t[1] # j /\ t[2] # j /\ t[3] # j
        /\ t[1] # t[2] /\ t[1] # t[3] /\ t[2] # t[3]}

\* the trial of target x_t from x_1, x_2, x_3: donor, clipping, crossover
Trial(x_t, x_1, x_2, x_3, F, bounds, crossover) ==
    LET v_donor == ensure_bounds([k \in 1..Len(x_1) |-> x_1[k] + F * (x_2[k] - x_3[k])],
                                 bounds)
    IN  [k \in 1..Len(x_t) |-> IF crossover[k] THEN v_donor[k] ELSE x_t[k]]

\* the first index of the largest score: gen_scores.index(max(gen_scores))
IndexOfMax(scores) ==
    CHOOSE k \in 1..Len(scores) :
        /\ scores[k] = MaxOf(scores)
        /\ \A l \in 1..(k - 1) : scores[l] # MaxOf(scores)

\* the scores the model's fitness functions give
DEFits == [0..(MaxCoord + 1) -> 0..MaxFit]

\* the initial populations passed as x0: None, one inside the bounds, one
\* with an individual outside, and one of another length than npop
DEX0 ==
    {NoX0, X0(<<<<0>>, <<1>>, <<2>>, <<1>>>>), X0(<<<<MaxCoord + 1>>, <<0>>, <<2>>, <<0>>>>),
     X0(<<<<0>>, <<1>>, <<2>>>>)}

DECalls ==
    {[op |-> "DEmod.evolute",
      args |-> [npop |-> DENpop, bounds |-> DEBounds, F |-> 1, fit |-> f, ngen |-> g, x0 |-> x],
      population |-> <<>>, gen |-> 0, x_t_lst |-> <<>>, v_trial_lst |-> <<>>,
      gen_scores |-> <<>>, last_scores |-> <<>>, best_scores |-> <<>>,
      x_best |-> <<>>, y_best |-> 0,
      done |-> FALSE, ret |-> <<>>, raised |-> "none"] :
        f \in DEFits, g \in 1..MaxGen, x \in DEX0}

DEInit ==
    /\ cfg \in {c \in PopConfigs : c.mode = "max"}
    /\ optimizers = <<[algo |-> "DE", mu |-> 0, size |-> DENpop]>>
    /\ Ncyc = 1
    /\ pops = <<>>
    /\ pc = "de_start"
    /\ i = 0
    /\ pop_fits = <<>>
    /\ eis = <<>>
    /\ exported = <<>>
    /\ alpha = Unbound
    /\ allot = <<>>
    /\ log = NewLog(0, 0)
    /\ err = NoError
    /\ stopped = FALSE
    /\ call \in DECalls
    /\ nops = 0
    /\ own = NoFitness

\* what no step of DEmod.evolute touches
DEFrame == UNCHANGED <<cfg, optimizers, Ncyc, pops, i, pop_fits, eis, exported, alpha, allot,
                       log, stopped, nops, own>>

\* the assert on len(x0) and InitPopulation
DEStart ==
    /\ pc = "de_start"
    /\ IF call.args.x0.given /\ Len(call.args.x0.list) # call.args.npop
       THEN /\ call' = [call EXCEPT !.done = TRUE, !.raised = "AssertionError"]
            /\ pc' = "raised"
            /\ err' = Raised("DEmod.evolute", "AssertionError")
       ELSE /\ \E population \in InitPopulation(call.args.npop, call.args.bounds, call.args.x0) :
                 call' = [call EXCEPT !.population = population, !.gen = 1]
            /\ pc' = "de_loop"
            /\ err' = err
    /\ DEFrame

\* the head of the loop over the generations: gen_scores, x_t_lst and
\* v_trial_lst start empty
DEGeneration ==
    /\ pc = "de_loop"
    /\ call.gen <= call.args.ngen
    /\ call' = [call EXCEPT !.last_scores = call.gen_scores, !.gen_scores = <<>>,
                            !.x_t_lst = <<>>, !.v_trial_lst = <<>>]
    /\ pc' = "de_trial"
    /\ err' = err
    /\ DEFrame

\* mutation and recombination for the next individual j of the population
DETrial ==
    /\ pc = "de_trial"
    /\ LET j == Len(call.v_trial_lst) + 1
           population == call.population
           x_t == population[j]
       IN  \E random_index \in Sample3(call.args.npop, j),
              crossover \in [1..Len(x_t) -> BOOLEAN] :
             LET v_trial == Trial(x_t, population[random_index[1]],
                                  population[random_index[2]], population[random_index[3]],
                                  call.args.F, call.args.bounds, crossover)
             IN  /\ call' = [call EXCEPT !.x_t_lst = Append(@, x_t),
                                         !.v_trial_lst = Append(@, v_trial)]
                 /\ pc' = IF j = call.args.npop THEN "de_select" ELSE "de_trial"
    /\ err' = err
    /\ DEFrame

\* evaluation of the trials and the targets, selection and fitness saving
DESelect ==
    /\ pc = "de_select"
    /\ LET fit == call.args.fit
           score_trial_lst == [k \in 1..Len(call.v_trial_lst) |-> fit[call.v_trial_lst[k][1]]]
           score_target_lst == [k \in 1..Len(call.x_t_lst) |-> fit[call.x_t_lst[k][1]]]
           population == [k \in 1..Len(call.population) |->
                            IF Replaces(score_trial_lst[k], score_target_lst[k])
                            THEN call.v_trial_lst[k] ELSE call.population[k]]
           gen_scores == [k \in 1..Len(score_trial_lst) |->
                            IF Replaces(score_trial_lst[k], score_target_lst[k])
                            THEN score_trial_lst[k] ELSE score_target_lst[k]]
           y_best == MaxOf(gen_scores)
       IN  call' = [call EXCEPT !.population = population, !.gen_scores = gen_scores,
                                !.y_best = y_best,
                                !.x_best = population[IndexOfMax(gen_scores)],
                                !.best_scores = Append(@, y_best),
                                !.gen = @ + 1]
    /\ pc' = "de_loop"
    /\ err' = err
    /\ DEFrame

\* return x_best, y_best, pesa_pop
DEReturn ==
    /\ pc = "de_loop"
    /\ call.gen > call.args.ngen
    /\ call' = [call EXCEPT
                  !.done = TRUE,
                  !.ret = [x_best |-> call.x_best, y_best |-> call.y_best,
                           pesa_pop |-> [k \in 1..Len(call.population) |->
                                           <<call.population[k], call.gen_scores[k]>>]]]
    /\ pc' = "returned"
    /\ err' = err
    /\ DEFrame

DENext == DEStart \/ DEGeneration \/ DETrial \/ DESelect \/ DEReturn

DESpec == DEInit /\ [][DENext]_vars

(***************************************************************************)
(* Properties of the cycle of AEO.evolute (Spec), continued.                *)
(***************************************************************************)
\* cycle i ran through evolution, export number, member selection and routing
CycleCompleted == pc \in {"stop", "done"}

\* C14: in a completed cycle the logged migration flag is false exactly if
\* all population fitnesses are equal, and then every export count is 0 and
\* every population has the size it was evolved with.
C14_MigrationFlag ==
    CycleCompleted =>
        /\ log.migration = (MaxOf(pop_fits) # MinOf(pop_fits))
        /\ ~log.migration =>
              /\ \A j \in 1..NPops : eis[j] = 0 /\ log.nexport[j] = 0
              /\ \A j \in 1..NPops :
                    Len(pops[j].members) = log.slices[j].nmembers /\ pops[j].n = log.slices[j].nmembers

C14_Witness ==
    /\ pc = "stop" /\ i = 2
    /\ ~log.migration
    /\ MaxOf(pop_fits) = MinOf(pop_fits)
    /\ \E j \in 1..NPops : Len(pops[j].members) > 1

\* C15: the stop predicate is tested only at the end of a cycle, after the
\* routing and once Ncycles is set; evolute returns after the cycle k in
\* which it is first true with Ncycles = k, and after cycle Ncyc with
\* Ncycles = Ncyc if it never is.
C15_StopAtCycleEnd ==
    [][/\ (stopped' /\ ~stopped) => (pc = "stop" /\ pc' = "done" /\ i <= Ncyc)
       /\ (pc' = "done" /\ pc # "done") =>
             /\ pc = "stop"
             /\ i' = i /\ log'.Ncycles = i
             /\ pops' = pops
             /\ IF stopped' THEN i <= Ncyc ELSE i = Ncyc
       /\ (pc = "stop" /\ pc' = "evolve") =>
             (~stopped' /\ i' = i + 1 /\ i < Ncyc /\ log'.Ncycles = i)
       /\ pc = "done" => UNCHANGED vars]_vars

C15_Witness ==
    /\ pc = "done" /\ stopped
    /\ i = 1 /\ Ncyc = MaxNcyc
    /\ log.Ncycles = 1

\* C25: AEO.evolute never modifies the strategy objects it was given: every
\* population resizes its own copy.
C25_UserStrategiesUntouched ==
    [][optimizers' = optimizers]_vars

\* a population ran on another size than its strategy was given with
C25_Witness ==
    /\ pc = "done" /\ i = MaxNcyc
    /\ \E j \in 1..NPops :
          /\ log.slices[j].evolute
          /\ pops[j].strategy.size # optimizers[j].size
          /\ pops[j].strategy.size = Len(log.slices[j].member_x)

EvolvedEmpty(j) == pc = "count" /\ Len(pops[j].members) = 0

\* C20: a population without members stays in the ensemble: its evolute is
\* skipped without error, its last recorded fitness goes into fmax and fmin
\* and into the f entry of the log for the cycle, and it can receive.
C20_EmptyPopulationStays ==
    \A j \in 1..NPops :
        EvolvedEmpty(j) =>
            /\ ~log.slices[j].evolute
            /\ pop_fits[j] = PopFitness(pops[j])
            /\ MinOf(pop_fits) <= PopFitness(pops[j]) /\ PopFitness(pops[j]) <= MaxOf(pop_fits)
            /\ log.slices[j].f = PopFitness(pops[j])
            /\ \A x \in Individuals :
                  LET r == receive(pops[j], <<x>>)
                  IN  r.raised = "none" /\ r.pop.members = <<x>> /\ r.pop.n = 1

\* a run of a single cycle has ended, and not in its evolution phase
SingleCycleEnded == Ncyc = 1 /\ pc \in {"done", "raised"} /\ err.at # "evolve"

\* C29: with Ncyc = 1 evolute completes its one cycle and returns a log whose
\* Ncycles is 1, under every accepted configuration, annealed alpha, beta
\* and q included
C29_SingleCycleCompletes == SingleCycleEnded => (pc = "done" /\ log.Ncycles = 1)

(***************************************************************************)
(* Properties of Population (PopSpec), continued.                           *)
(***************************************************************************)
\* the members of t are those of s that remain, in the order they have in s
KeepsOrder(s, t) ==
    LET Kept(x) == x \in Range(t)
    IN  SelectSeq(s, Kept) = t

\* every order and kf export can be passed
AnyOrder == {"wb", "bw", "awb", "abw", "None"}
AnyKf == {0, 1, KfNone}

UniExport == call'.op = "export" /\ call'.wt = "uni"

\* C13: with wt = 'uni' an export is an outcome of export under every order
\* and kf, it leaves the remaining members in their order, and every
\* choice of ei members is among its outcomes.
C13_UniformIgnoresOrder ==
    [][UniExport =>
          LET p == pops[1]
              ei == call'.ei
              outcomes == export(p, ei, "uni", "None", KfNone, ROne, LogSlice)
          IN  /\ \A o \in AnyOrder, k \in AnyKf :
                    export(p, ei, "uni", o, k, call'.gfrac, LogSlice) = outcomes
              /\ \E r \in outcomes :
                    r.pop = pops'[1] /\ r.ret = call'.ret /\ r.raised = call'.raised
              /\ KeepsOrder(p.members, pops'[1].members)
              /\ call'.raised = "none" =>
                    /\ Range(pops'[1].members) = Range(p.members) \ Range(call'.ret)
                    /\ \A S \in {T \in SUBSET Range(p.members) : Cardinality(T) = ei} :
                          \E r \in outcomes : Range(r.ret) = S]_vars

C13_Witness ==
    /\ call.op = "export" /\ call.wt = "uni" /\ call.raised = "none"
    /\ call.n = MaxMembers /\ call.ei = 1
    /\ Len(pops[1].members) = MaxMembers - 1
    /\ pops[1].members[1] # 1

\* the least number of members the strategy s runs on
Threshold(s) == IF s.algo \in {"WOA", "GWO", "PSO", "HHO", "DE"} THEN 5 ELSE s.mu

TooFewEvolute == call'.op = "evolute" /\ Len(pops[1].members) < Threshold(pops[1].strategy)

\* C16: evolute on fewer members than the strategy's minimum (5 for WOA, GWO,
\* PSO, HHO and DE, mu for ES) does not run the strategy: members,
\* member_fitnesses and fitlog stay, the evolute flag of the log stays false
\* and the last recorded fitness is returned; with no recorded fitness it
\* raises.
C16_TooFewToEvolve ==
    [][TooFewEvolute =>
          LET p == pops[1]
              q == pops'[1]
          IN  IF Len(p.fitlog) = 0
              THEN call'.raised = "Exception" /\ pc' = "raised" /\ q = p
              ELSE /\ call'.raised = "none"
                   /\ q.members = p.members
                   /\ q.member_fitnesses = p.member_fitnesses
                   /\ q.fitlog = p.fitlog
                   /\ q.strategy = p.strategy
                   /\ ~log'.slices[1].evolute
                   /\ pop_fits' = <<p.fitlog[Len(p.fitlog)]>>]_vars

C16_Witness ==
    /\ call.op = "evolute" /\ call.raised = "none"
    /\ call.n = 1 /\ pops[1].strategy.mu = 2
    /\ Len(pops[1].fitlog) = 1
    /\ ~log.slices[1].evolute
    /\ pop_fits = <<pops[1].fitlog[1]>>

\* the step is an export that returned, from a population whose members all
\* carry the fitness of the last evolution, so that the member log of the
\* cycle holds each at its position in members
ExportOfLogged ==
    /\ call'.op = "export" /\ call'.raised = "none"
    /\ pops[1].has_mf
    /\ \A k \in 1..Len(pops[1].members) : pops[1].member_fitnesses[k] # NaN

\* C21: after an export of k members exactly k slots of the log are flagged
\* as exported, and each flagged slot is the position a removed member had
\* before the export, under every weighting and also with tied fitnesses.
C21_ExportedSlots ==
    [][ExportOfLogged =>
          /\ Cardinality(log'.slices[1].exported) = Len(call'.ret)
          /\ \A k \in log'.slices[1].exported :
                /\ k \in 1..Len(pops[1].members)
                /\ pops[1].members[k] \in Range(call'.ret)]_vars

\* the step is a receive by a population that was evaluated before, as every
\* population is when AEO.evolute routes the exported individuals
ReceiveCall == call'.op = "receive" /\ pops[1].has_mf

\* C23: receive appends the individuals to members in the given order and
\* one NaN each to member_fitnesses, sets n to the new length, and leaves
\* the earlier members, their fitnesses, their order and fitlog as they were.
C23_ReceiveAppends ==
    [][ReceiveCall =>
          LET p == pops[1]
              q == pops'[1]
              new == call'.individuals
          IN  /\ call'.raised = "none"
              /\ q.members = p.members \o new
              /\ q.member_fitnesses = p.member_fitnesses \o [k \in 1..Len(new) |-> NaN]
              /\ q.n = Len(p.members) + Len(new)
              /\ q.fitlog = p.fitlog
              /\ q.strategy = p.strategy /\ q.mode = p.mode]_vars

C23_Witness ==
    /\ call.op = "receive" /\ call.raised = "none" /\ Evaluated
    /\ call.n >= 1 /\ Len(call.individuals) = 2
    /\ pops[1].n = call.n + 2
    /\ SubSeq(pops[1].members, call.n + 1, call.n + 2) = call.individuals
    /\ pops[1].member_fitnesses[call.n] # NaN
    /\ pops[1].member_fitnesses[call.n + 1] = NaN /\ pops[1].member_fitnesses[call.n + 2] = NaN

\* the step is a call of evolute that ran the strategy
RanStrategy ==
    /\ call'.op = "evolute" /\ call'.raised = "none"
    /\ Len(pops[1].members) >= Threshold(pops[1].strategy)

\* C24: fitlog is append-only: an evolute that runs the strategy appends one
\* entry, the greatest (mode max) or least (mode min) of the member fitnesses
\* the phase ended with; a skipped evolute, export and receive leave fitlog
\* as it was.
C24_FitlogAppendOnly ==
    [][nops' = nops + 1 =>
          LET p == pops[1]
              q == pops'[1]
          IN  IF RanStrategy
              THEN /\ Len(q.fitlog) = Len(p.fitlog) + 1
                   /\ SubSeq(q.fitlog, 1, Len(p.fitlog)) = p.fitlog
                   /\ \E k \in 1..Len(q.member_fitnesses) :
                         q.member_fitnesses[k] = q.fitlog[Len(q.fitlog)]
                   /\ \A k \in 1..Len(q.member_fitnesses) :
                         IF q.mode = "max"
                         THEN q.member_fitnesses[k] <= q.fitlog[Len(q.fitlog)]
                         ELSE q.member_fitnesses[k] >= q.fitlog[Len(q.fitlog)]
              ELSE q.fitlog = p.fitlog]_vars

\* a second evolution, after an export and a receive, with unequal fitnesses
C24_Witness ==
    /\ call.op = "evolute" /\ call.raised = "none"
    /\ Len(pops[1].fitlog) = 2 /\ nops = MaxOps
    /\ log.slices[1].evolute
    /\ \E k, l \in 1..Len(pops[1].member_fitnesses) :
          pops[1].member_fitnesses[k] < pops[1].member_fitnesses[l]

\* an export with rank weights and a kf of 0 or 1 from n >= 1 evaluated members
RankedExport ==
    /\ call.op = "export" /\ call.wt \in {"log", "lin", "exp"} /\ call.order # "None"
    /\ call.kf \in {0, 1} /\ call.n >= 1 /\ Evaluated

\* C27: for log, lin and exp weights, kf in {0, 1} and n >= 1 every rank has
\* a strictly positive weight, so a draw of any count up to n does not fail
C27_WeightsPositive ==
    RankedExport =>
        /\ \A r \in 1..call.n :
              LET w == RankWts(call.wt, call.n, call.n, call.kf)[r]
              IN  IsReal(w) /\ w.num > 0
        /\ call.ei <= call.n => call.raised = "none"

(***************************************************************************)
(* Properties of the functions.                                             *)
(***************************************************************************)
StrengthReturned == call.op = "strength" /\ call.done

\* C11: every strength Population.strength computes, for 'fitness' and
\* 'improve', burdened or not, in mode max and min, lies in [0, 1].
C11_StrengthInUnitInterval ==
    StrengthReturned =>
        /\ RLe(RZero, call.ret.ret) /\ RLe(call.ret.ret, ROne)
        /\ RLe(RZero, call.ret.log.unburdened_g) /\ RLe(call.ret.log.unburdened_g, ROne)

AlphaBetaReturned == call.op = "get_alphabeta" /\ call.done /\ call.raised = "none"

\* C12: for N > 1, get_alphabeta('up', 1, N) = 0 and get_alphabeta('up', N, N)
\* = 1, 'down' is 1 - 'up' in every cycle of 1..N, and a float is returned
\* unchanged.
C12_AnnealingEndpoints ==
    (AlphaBetaReturned /\ call.args.Ncyc > 1) =>
        LET a == call.args
        IN  /\ (a.aorb.kind = "up" /\ a.ncyc = 1) => call.ret = RZero
            /\ (a.aorb.kind = "up" /\ a.ncyc = a.Ncyc) => call.ret = ROne
            /\ a.aorb.kind = "down" =>
                   call.ret = RSub(ROne, get_alphabeta(Annealed("up"), a.ncyc, a.Ncyc))
            /\ a.aorb.kind = "up" =>
                   get_alphabeta(Annealed("down"), a.ncyc, a.Ncyc) = RSub(ROne, call.ret)
            /\ a.aorb.kind = "float" => call.ret = a.aorb.val

C12_Witness ==
    /\ AlphaBetaReturned
    /\ call.args.aorb.kind = "up"
    /\ call.args.Ncyc = MaxAnneal /\ call.args.ncyc = MaxAnneal
    /\ call.ret = ROne

InitReturned == call.op = "__init__" /\ call.done

\* a number below 0, float or int
NegativeNumber(x) == x.kind \in {"float", "int"} /\ RLt(x.val, RZero)

\* the arguments the constructor has to refuse; an order or a kf left at its
\* default None is not a value of the option
Refused(a) ==
    \/ a.mode \notin {"min", "max"}
    \/ a.wt \notin {"log", "lin", "exp", "uni"}
    \/ a.order \notin {"wb", "bw", "awb", "abw", "None"}
    \/ a.g \notin {"fitness", "improve"}
    \/ a.b \notin {"fitness", "improve"}
    \/ a.kf \notin {0, 1, KfNone}
    \/ NegativeNumber(a.alpha)
    \/ NegativeNumber(a.beta)

\* C17: AEO.__init__ raises, and no object is made, for a mode other than
\* min and max, for a wt, order, g or b outside its values, for a kf that is
\* neither of the two variants, and for a negative number as alpha or beta.
C17_ConstructorRefuses ==
    (InitReturned /\ Refused(call.args)) =>
        /\ call.raised \in {"ValueError", "Exception"}
        /\ call.ret = <<>>
        /\ pc = "raised"
        /\ call.args.mode \notin {"min", "max"} => call.raised = "ValueError"

C17_Witness ==
    /\ InitReturned
    /\ call.args.kf = 2
    /\ ~Refused([call.args EXCEPT !.kf = 1])
    /\ call.raised = "Exception" /\ call.ret = <<>>

EvoluteReturned == call.op = "evolute" /\ call.done

\* C18: evolute with x0 and pop0 of different lengths raises before any
\* Population is made and before the first cycle.
C18_MismatchFailsEarly ==
    (EvoluteReturned /\ Len(call.args.x0) # Len(call.args.pop0)) =>
        /\ call.raised = "AssertionError"
        /\ pc = "raised"
        /\ pops = <<>>
        /\ i = 0 /\ log.Ncycles = 0

C18_Witness ==
    /\ EvoluteReturned
    /\ Len(call.args.x0) = MaxMembers /\ Len(call.args.pop0) = MaxMembers - 1
    /\ call.raised = "AssertionError"
    /\ pops = <<>>

\* the raw signal behind a returned strength: strength normalises it as
\* (unorm - fworst)/(fbest - fworst), so unorm = normed*(fbest - fworst) + fworst
RawSignal ==
    LET a == call.args
        fbest == IF a.p.mode = "max" THEN a.fmax ELSE a.fmin
        fworst == IF a.p.mode = "max" THEN a.fmin ELSE a.fmax
    IN  RAdd(RMul(call.ret.log.unburdened_g, RInt(fbest - fworst)), RInt(fworst))

ImproveReturned == StrengthReturned /\ call.args.g = "improve"

\* the gain of the last evolution over the one before, not below 0
ClampedGain(fitlog) ==
    LET d == fitlog[Len(fitlog)] - fitlog[Len(fitlog) - 1]
    IN  RInt(IF d > 0 THEN d ELSE 0)

\* C19: with 'improve' the raw signal is 0 for a population with only one
\* recorded fitness and max(currentBest - previousBest, 0) otherwise, so it
\* is never negative.
C19_ImproveSignal ==
    ImproveReturned =>
        /\ RawSignal = (IF Len(call.args.p.fitlog) = 1 THEN RZero
                        ELSE ClampedGain(call.args.p.fitlog))
        /\ RLe(RZero, RawSignal)

\* C19 as the code has it: with 'improve' the raw signal is the current
\* fitness for a population with only one recorded fitness and
\* max(currentBest - previousBest, 0), which is never negative, otherwise.
C19_ImproveSignalAmended ==
    ImproveReturned =>
        IF Len(call.args.p.fitlog) = 1
        THEN RawSignal = RInt(call.args.p.fitlog[1])
        ELSE RawSignal = ClampedGain(call.args.p.fitlog) /\ RLe(RZero, RawSignal)

C19_Witness ==
    /\ ImproveReturned
    /\ call.args.p.fitlog = <<MaxLevel, 0>>
    /\ RawSignal = RZero

ExportReturned == call.op = "export" /\ call.done /\ call.raised = "none"

\* the direction the members of q are in: worst first or best first
Direction(q) ==
    LET f == q.member_fitnesses
        ascending == \A k \in 1..(Len(f) - 1) : f[k] < f[k + 1]
    IN  IF (q.mode = "max") = ascending THEN "wb" ELSE "bw"

Stated(order) == IF order \in {"wb", "awb"} THEN "wb" ELSE "bw"
Opposite(dir) == IF dir = "wb" THEN "bw" ELSE "wb"

\* C22: with 'awb' or 'abw' the export of cycle i of Ncyc orders the members
\* in the stated direction for i/Ncyc < 0.5 and in the reverse from then on,
\* so that no earlier cycle of the run has the reverse while this one has the
\* stated direction; with 'wb' or 'bw' the direction is the stated one in
\* every cycle.
C22_AnnealedOrder ==
    (ExportReturned /\ Len(call.ret.pop.members) > 1) =>
        LET a == call.args
            dir == Direction(call.ret.pop)
        IN  /\ a.order \in {"wb", "bw"} => dir = Stated(a.order)
            /\ a.order \in {"awb", "abw"} =>
                  /\ dir = (IF 2 * a.ncyc < a.Ncyc THEN Stated(a.order)
                            ELSE Opposite(Stated(a.order)))
                  /\ dir = Stated(a.order) =>
                        \A c \in 1..a.ncyc : ExportOrder(a.order, Rat(c, a.Ncyc)) = dir

\* the last cycle before half of the run, and the first from half on
C22_Witness ==
    /\ ExportReturned
    /\ call.args.order = "awb" /\ call.args.Ncyc = MaxAnneal
    /\ \/ call.args.ncyc = 1 /\ Direction(call.ret.pop) = "wb"
       \/ call.args.ncyc = 2 /\ Direction(call.ret.pop) = "bw"

\* Population.evolute has returned or raised
PopEvoluteReturned == pc \in {"returned", "raised"} /\ call.op = "pop_evolute"

\* C26: whenever Population.evolute runs its strategy, the strategy it runs
\* is configured for exactly len(members) individuals, that size passes the
\* strategy's construction precondition (DE: npop > 3) and its check of the
\* length of x0, and the call does not fail
C26_SizeMatchesMembers ==
    (PopEvoluteReturned /\ eval_algo_popnumber(call.args.p.strategy, Len(call.args.p.members)))
        => /\ call.raised = "none"
           /\ call.ret.log.evolute
           /\ call.ret.pop.strategy.size = Len(call.args.p.members)
           /\ ~StrategyInitRaises(call.ret.pop.strategy)
           /\ ~StrategyEvoluteRaises(call.ret.pop.strategy, call.args.p.members)

\* a DE strategy made for 4 individuals has run on a population of MaxResize
C26_Witness ==
    /\ PopEvoluteReturned
    /\ call.args.p.strategy = [algo |-> "DE", mu |-> 0, size |-> 4]
    /\ Len(call.args.p.members) = MaxResize
    /\ call.ret.log.evolute
    /\ call.ret.pop.strategy.size = MaxResize
    /\ Len(call.ret.pop.fitlog) = 1

\* the binomial probabilities of a cycle were computed
BinomialWtsReturned ==
    /\ pc \in {"returned", "raised"} /\ call.op = "binomial_wts"
    /\ call.raised # "ZeroDivisionError"

\* C28: for every accepted q, a float or 'up' or 'down', and every cycle the
\* binomial probability (0.5 - s_i)*q + 0.5 of each population is in [0, 1]
C28_ProbabilityInUnitInterval ==
    BinomialWtsReturned =>
        /\ call.raised = "none"
        /\ \A j \in 1..Len(call.ret) : RLe(RZero, call.ret[j]) /\ RLe(call.ret[j], ROne)

\* the constructor has accepted a configuration with rank weights
AcceptedRankWeights ==
    InitReturned /\ call.raised = "none" /\ call.args.wt \in {"log", "lin", "exp"}

\* C30: a configuration the constructor accepts with a non-uniform wt has
\* order and kf set, so an export under it does not fail for a missing
\* order or kf
C30_OrderAndKfSet ==
    AcceptedRankWeights =>
        /\ call.args.order # "None"
        /\ call.args.kf # KfNone
        /\ \A r \in export(Ranked("max", 2), 1, call.args.wt, call.args.order, call.args.kf,
                            ROne, LogSlice) : r.raised # "TypeError"

\* evolute has built its populations from x0 and pop0, or from npop0
PopulationsBuilt ==
    /\ pc = "returned" /\ call.op \in {"evolute", "evolute_npop0"}

\* the number of initial individuals: len(x0)
InitialIndividuals ==
    IF call.op = "evolute" THEN Len(call.args.x0) ELSE call.ret[1]

\* C31: when evolute starts, every initial individual is a member of exactly
\* one population: the sizes of the initial populations sum to len(x0), with
\* x0 and pop0 of equal length and with an npop0 split
C31_InitialSplit ==
    PopulationsBuilt =>
        /\ SumSeq([j \in 1..Len(pops) |-> Len(pops[j].members)]) = InitialIndividuals
        /\ \A x \in 1..InitialIndividuals :
              Cardinality({j \in 1..Len(pops) : x \in Range(pops[j].members)}) = 1

(***************************************************************************)
(* Properties of DEmod (DESpec).                                            *)
(***************************************************************************)
\* the score fit gives individual x
ScoreOf(x) == call.args.fit[x[1]]

\* C32: in DEmod.evolute with ngen >= 1 the population keeps its npop slots
\* in every generation; selection replaces a slot's individual only by its
\* trial and only if the trial scores strictly higher; the score recorded
\* for a slot never decreases from one generation to the next; and the
\* call returns every slot's final individual paired with that slot's score
\* and, as best fitness, the maximum of those scores
C32_DEGenerations ==
    [][/\ pc' \in {"de_loop", "de_trial", "de_select", "returned"}
            => Len(call'.population) = call.args.npop
       /\ pc = "de_select" =>
            \A k \in 1..call.args.npop :
               /\ call'.population[k] # call.population[k]
                    => /\ call'.population[k] = call.v_trial_lst[k]
                       /\ ScoreOf(call.v_trial_lst[k]) > ScoreOf(call.population[k])
               /\ call.last_scores # <<>> => call'.gen_scores[k] >= call.last_scores[k]
       /\ pc' = "returned" =>
            /\ Len(call'.ret.pesa_pop) = call.args.npop
            /\ \A k \in 1..call.args.npop :
                  call'.ret.pesa_pop[k] = <<call.population[k], call.gen_scores[k]>>
            /\ \A k \in 1..call.args.npop : call'.ret.y_best >= call'.ret.pesa_pop[k][2]
            /\ \E k \in 1..call.args.npop : call'.ret.y_best = call'.ret.pesa_pop[k][2]
      ]_vars

\* two generations have run on a given x0, the second raised the score of a
\* slot, and the call returned
C32_Witness ==
    /\ pc = "returned" /\ call.op = "DEmod.evolute"
    /\ call.args.ngen = MaxGen /\ Len(call.best_scores) = MaxGen
    /\ call.args.x0.given
    /\ call.population # call.args.x0.list
    /\ \E k \in 1..call.args.npop : call.gen_scores[k] > call.last_scores[k]
    /\ Len(call.ret.pesa_pop) = call.args.npop

\* ensure_bounds has returned for bounds with low <= high in every variable
EnsureBoundsReturned ==
    /\ pc = "returned" /\ call.op = "ensure_bounds"
    /\ \A k \in 1..Len(call.args.bounds) : call.args.bounds[k].low <= call.args.bounds[k].high

\* v clipped to [low, high]
Clipped(v, low, high) == IF v < low THEN low ELSE IF v > high THEN high ELSE v

\* C33: for a vector of length dim and bounds with low <= high in every
\* variable, ensure_bounds returns a vector of length dim whose component i
\* is the input clipped to [low_i, high_i], a value inside or on a bound
\* being passed through unchanged; applying it again changes nothing
C33_EnsureBoundsClips ==
    EnsureBoundsReturned =>
        /\ Len(call.ret) = Len(call.args.vec)
        /\ \A k \in 1..Len(call.args.vec) :
              call.ret[k] = Clipped(call.args.vec[k], call.args.bounds[k].low,
                                    call.args.bounds[k].high)
        /\ ensure_bounds(call.ret, call.args.bounds) = call.ret

\* a vector of two variables, one above its bounds and one exactly on its
\* upper bound, was clipped
C33_Witness ==
    /\ EnsureBoundsReturned
    /\ call.args.vec = <<MaxCoord + 1, 1>>
    /\ call.args.bounds = <<[low |-> 0, high |-> MaxCoord], [low |-> 0, high |-> 1]>>
    /\ call.ret = <<MaxCoord, 1>>

=============================================================================
